---- MODULE Spec2Model ----
(***************************************************************************)
(* A model of the DEEP-FRI engine of stark-has (Goldilocks crates):        *)
(*   - the configurable-arity Merkle commitment (crates/merkle),           *)
(*   - the Fiat-Shamir transcript, Poseidon backend (crates/transcript),   *)
(*   - the DEEP-ALI merge and the DEEP-FRI prover and verifier             *)
(*     (crates/deep_ali).                                                  *)
(*                                                                         *)
(* Hash functions are modelled as collision-free: a digest is the          *)
(* length-prefixed serialisation of what was hashed, so two digests are    *)
(* equal exactly when the hashed inputs are equal.  The 64-bit prime field *)
(* is modelled by the prime field of P elements (P - 1 = 2^6 * 3), which   *)
(* has radix-2 subgroups up to order 64.                                   *)
(***************************************************************************)
EXTENDS Integers, Sequences, FiniteSets, TLC

VARIABLES
    \* ---- Merkle tree (MerkleTreeChannel) and one opening under test ----
    m_cfg,      \* MerkleChannelCfg: [layer_arities, tree_label]
    m_trace,    \* the trace_hash handed to MerkleTreeChannel::new
    m_levels,   \* MerkleTreeChannel.levels
    m_root,     \* value returned by the last finalize (<<>> before)
    m_nfin,     \* number of finalize calls so far
    m_open,     \* the opening held by the caller ([leaf, path, index]) or NoOpening
    m_tamper,   \* what the caller changed in the opening since open()
    m_vtrace,   \* the trace_hash handed to verify_opening
    m_res       \* "idle", "opened", the outcome of verify_opening ("true", "false",
                \* "panic"), or "panic_finalize" / "panic_open"

mvars == <<m_cfg, m_trace, m_levels, m_root, m_nfin, m_open, m_tamper, m_vtrace, m_res>>

VARIABLES
    \* ---- the permutation / hash functions, sampled on first use ----
    ro,         \* function: sponge input (a key) -> the field element squeezed
    \* ---- two transcripts ("A" and "B") driven by a caller ----
    t_init,     \* side -> the init label handed to Transcript::new
    t_sp,       \* side -> PoseidonBackend: [base, cells, pos]
    t_calls,    \* side -> the calls received so far
    t_out,      \* side -> the values returned by its challenge calls
    t_stmt,     \* side -> the statement (n0, schedule, seed_z) bound, or NoStmt
    t_z         \* side -> the DEEP challenge derived after binding, or <<>>

tvars == <<t_init, t_sp, t_calls, t_out, t_stmt, t_z>>

VARIABLES
    \* ---- layer_sizes_from_schedule / the fold loop over one schedule ----
    s_n0,       \* initial domain size
    s_sched,    \* folding schedule
    s_who,      \* "prover" (the fold loop) or "verifier" (layer_sizes_from_schedule)
    s_sizes,    \* sizes pushed so far
    s_st        \* "run", "done" or "panic" (a divisibility assertion fired)

svars == <<s_n0, s_sched, s_who, s_sizes, s_st>>

VARIABLES
    \* ---- one run of merge, deep_fri_prove and deep_fri_verify ----
    f_pc,       \* "start", "merged", "proved", "verified", or the call that aborted
    f_in,       \* the caller's inputs: [n0, c, flip, z]
    f_params,   \* DeepFriParams: [schedule, r, seed_z]
    f_f0,       \* the codeword returned by the merge
    f_pz,       \* z_fp3 derived by fri_build_transcript
    f_plog,     \* calls made on the prover's statement transcript, in order
    f_pseed,    \* the seed handed to fri_prove_queries, with the key it was hashed from
    f_st,       \* FriProverState, with the committed trees
    f_proof,    \* DeepFriProof (under assembly until f_pc = "proved")
    f_vz,       \* z_fp3 derived by deep_fri_verify
    f_vlog,     \* calls made on the verifier's transcript, in order
    f_res,      \* the value returned by deep_fri_verify ("none" before)
    f_tamper,   \* what was changed in the proof between prover and verifier
    f_size      \* the value returned by deep_fri_proof_size_bytes (-1 before)

fvars == <<f_pc, f_in, f_params, f_f0, f_pz, f_plog, f_pseed, f_st, f_proof, f_vz, f_vlog,
          f_res, f_tamper, f_size>>

VARIABLES
    \* ---- one call of fri_sample_z_ell ----
    z_in,       \* its arguments: [seed_z, level, domain_size]
    z_tries,    \* the loop's counter
    z_st,       \* "loop", "returned", or "idle"
    z_ret       \* the value returned, with how: [value, by]

zvars == <<z_in, z_tries, z_st, z_ret>>

VARIABLES
    \* ---- one call of fri_fold_layer ----
    p_in,       \* its arguments and its build: [evals, z_l, folding_factor, feature, threads]
    p_out,      \* the vector out
    p_todo,     \* parallel branch: the tasks (indices b) that have not run yet
    p_b,        \* sequential branch: the loop's index
    p_st        \* "called", "par", "seq", "returned", "panic", or "idle"

pvars == <<p_in, p_out, p_todo, p_b, p_st>>

VARIABLES
    \* ---- one transcript on the SHA3-256 or the BLAKE3 backend ----
    h_kind,     \* "sha3-256" or "blake3"
    h_init,     \* the init label handed to new
    h_bytes,    \* the bytes the incremental hasher self.h was updated with, in order
    h_calls,    \* the calls received so far
    h_out       \* the values returned by its challenge calls, in order

hvars == <<h_kind, h_init, h_bytes, h_calls, h_out>>

VARIABLES
    \* ---- one product of two embedded base-field elements ----
    w_a, w_b,   \* the base-field elements
    w_prod      \* Fp3::from_base(a) * Fp3::from_base(b) (<<>> before)

wvars == <<w_a, w_b, w_prod>>

xvars == <<pvars, hvars, wvars>>

vars == <<mvars, ro, tvars, svars, fvars, zvars, xvars>>


-----------------------------------------------------------------------------
(* Bounds *)

MaxLeaves == 5          \* leaves pushed into one tree
MaxTamperIndex == 9     \* largest index a caller writes into an opening
MaxCalls == 2           \* calls a caller makes on one transcript
MaxQueries == 2         \* largest query count r
MaxTamperQueries == 1   \* largest query count of a proof that is tampered with
MaxHashCalls == 3       \* calls a caller makes on one SHA3-256 or BLAKE3 transcript

-----------------------------------------------------------------------------
(* Generic sequence helpers *)

RECURSIVE Flat(_)
\* The length-prefixed concatenation of a sequence of digests.
Flat(ch) ==
    IF ch = <<>> THEN <<>>
    ELSE <<Len(Head(ch))>> \o Head(ch) \o Flat(Tail(ch))

Last(s) == s[Len(s)]

Repeat(x, k) == [i \in 1..k |-> x]

RemoveAt(s, k) == SubSeq(s, 1, k - 1) \o SubSeq(s, k + 1, Len(s))

RECURSIVE Prod(_)
Prod(s) == IF s = <<>> THEN 1 ELSE Head(s) * Prod(Tail(s))

-----------------------------------------------------------------------------
(* Merkle commitment: crates/merkle/src/lib.rs *)

\* u32::MAX, the level written into a leaf's label.  Written as the 32-bit
\* two's complement pattern; inner levels are >= 1, so it is distinct from them.
LEAF_LEVEL_DS == -1

\* A raw field value as a digest-shaped value.
Fv(x) == <<x>>

DsLabel(arity, level, position, tree_label) ==
    <<arity, level, position, tree_label>>

\* mutant: only the first child is hashed
CompressHeadOnly(ds, children) == ds \o Flat(<<children[1]>>)

\* compress: SHA3 over ds.to_bytes() and the children; the trace hash is
\* not an input.
Compress(ds, children) == ds \o Flat(children)

\* push_leaf
LeafDigest(cfg, idx, values) ==
    Compress(DsLabel(cfg.layer_arities[1], LEAF_LEVEL_DS, idx, cfg.tree_label),
             values)

\* mutant: pads with the first node of the level
PadLevelFirst(cur, arity) ==
    IF Len(cur) % arity # 0
    THEN cur \o Repeat(Head(cur), arity - (Len(cur) % arity))
    ELSE cur

\* finalize: pad a level with copies of its last node
PadLevel(cur, arity) ==
    IF Len(cur) % arity # 0
    THEN cur \o Repeat(Last(cur), arity - (Len(cur) % arity))
    ELSE cur

\* finalize: the parents of one level
Parents(cfg, cur, level) ==
    LET arity == cfg.layer_arities[level + 1]
        padded == PadLevel(cur, arity)
    IN [i \in 1..(Len(padded) \div arity) |->
            Compress(DsLabel(arity, level + 1, i - 1, cfg.tree_label),
                     SubSeq(padded, (i - 1) * arity + 1, i * arity))]

RECURSIVE FinalizeLoop(_, _, _)
\* finalize's while loop from `level`: [ok, levels]; ok is FALSE when an
\* index (levels[level], layer_arities[level]) is out of range.
FinalizeLoop(cfg, levels, level) ==
    IF level + 1 > Len(levels) THEN [ok |-> FALSE, levels |-> levels]
    ELSE IF Len(levels[level + 1]) > 1
    THEN IF level + 1 > Len(cfg.layer_arities) THEN [ok |-> FALSE, levels |-> levels]
         ELSE FinalizeLoop(cfg, Append(levels, Parents(cfg, levels[level + 1], level)),
                           level + 1)
    ELSE [ok |-> TRUE, levels |-> levels]

\* open: the siblings of idx at one level
OpenGroup(nodes, arity, idx) ==
    LET group_start == (idx \div arity) * arity
        group == [i \in 1..arity |->
                    IF group_start + (i - 1) < Len(nodes)
                    THEN nodes[group_start + i]
                    ELSE Last(nodes)]
        pos == idx - group_start + 1
    IN RemoveAt(group, pos)

RECURSIVE OpenPath(_, _, _, _)
OpenPath(cfg, levels, level, idx) ==
    IF level >= Len(levels) - 1 THEN <<>>
    ELSE LET arity == cfg.layer_arities[level + 1]
         IN <<OpenGroup(levels[level + 1], arity, idx)>>
            \o OpenPath(cfg, levels, level + 1, idx \div arity)

\* open may index layer_arities or levels[0] out of range
OpenPanics(cfg, levels, index) ==
    \/ Len(levels) = 0
    \/ Len(levels) - 1 > Len(cfg.layer_arities)
    \/ index >= Len(levels[1])

Open(cfg, levels, index) ==
    [leaf |-> levels[1][index + 1],
     path |-> OpenPath(cfg, levels, 0, index),
     index |-> index]

\* verify_opening: the sibling iterator runs dry before the group is full
SiblingsShort(siblings, arity) == Len(siblings) < arity - 1

\* verify_opening: the children of one level; siblings beyond arity - 1 are
\* never read
VerifyChildren(cur, siblings, arity, pos) ==
    [i \in 1..arity |->
        IF i - 1 = pos THEN cur
        ELSE IF i - 1 < pos THEN siblings[i] ELSE siblings[i - 1]]

RECURSIVE VerifyLoop(_, _, _, _, _)
\* verify_opening's loop over opening.path: [st, cur]
VerifyLoop(cfg, path, level, cur, idx) ==
    IF level >= Len(path) THEN [st |-> "ok", cur |-> cur]
    ELSE IF level + 1 > Len(cfg.layer_arities) THEN [st |-> "panic", cur |-> cur]
    ELSE LET arity == cfg.layer_arities[level + 1]
             pos == idx % arity
         IN IF SiblingsShort(path[level + 1], arity) THEN [st |-> "false", cur |-> cur]
            ELSE VerifyLoop(cfg, path, level + 1,
                    Compress(DsLabel(arity, level + 1, idx \div arity, cfg.tree_label),
                             VerifyChildren(cur, path[level + 1], arity, pos)),
                    idx \div arity)

\* verify_opening(cfg, root, opening, _trace_hash): "true", "false" or "panic"
VerifyOpening(cfg, root, opening, trace_hash) ==
    LET r == VerifyLoop(cfg, opening.path, 0, opening.leaf, opening.index)
    IN IF r.st = "ok"
       THEN IF r.cur = root THEN "true" ELSE "false"
       ELSE r.st

-----------------------------------------------------------------------------
(* The prime field and the direct product ring F x F x F *)

\* The field modulus.  The source's 64-bit prime is replaced by a prime with
\* P - 1 = 2^6 * 3, TWO_ADICITY by 6, and the two-adic root by an element of
\* order 2^6.
P == 193
TWO_ADICITY == 6
TWO_ADIC_ROOT == 125

FAdd(a, b) == (a + b) % P
FSub(a, b) == (a - b + P) % P
FMul(a, b) == (a * b) % P

RECURSIVE FPow(_, _)
\* pow: square and multiply
FPow(x, e) ==
    IF e = 0 THEN 1
    ELSE LET h == FPow(x, e \div 2)
         IN IF e % 2 = 0 THEN FMul(h, h) ELSE FMul(x, FMul(h, h))

\* inverse(): None on zero, written 0 (the inverse of no element); unwrap()
\* of it is the abort that Fp3InvPanics tells
InvTable ==
    [x \in 0..(P - 1) |-> IF x = 0 THEN 0 ELSE CHOOSE y \in 1..(P - 1) : (x * y) % P = 1]
FInv(x) == InvTable[x]

RECURSIVE Pow2(_)
Pow2(k) == IF k = 0 THEN 1 ELSE 2 * Pow2(k - 1)

IsPowerOfTwo(n) == \E k \in 0..16 : n = Pow2(k)

\* Domain::new(size).group_gen: the generator of the subgroup of order size
GroupGen(size) == FPow(TWO_ADIC_ROOT, Pow2(TWO_ADICITY) \div size)

\* the points 1, omega, omega^2, ... of the domain of order n
OmegaPows(omega, n) == [i \in 1..n |-> FPow(omega, i - 1)]

Fp3FromBase(x) == <<x, x, x>>
Fp3Sub(a, b) == [i \in 1..3 |-> FSub(a[i], b[i])]
Fp3Mul(a, b) == [i \in 1..3 |-> FMul(a[i], b[i])]
\* mutant: only the first component is looked at
Fp3InvPanicsFirst(a) == a[1] = 0

\* inv(): inverse().unwrap() on each component
Fp3InvPanics(a) == \E i \in 1..3 : a[i] = 0
Fp3Inv(a) == [i \in 1..3 |-> FInv(a[i])]

-----------------------------------------------------------------------------
(* The Fiat-Shamir transcript, Poseidon backend.

   A byte string is a sequence of byte values.  A field element held in a
   sponge cell is written as the eight little-endian bytes of its canonical
   value, whatever produced it (a tag, a chunk of bytes, an absorbed element);
   a Merkle root, which the source holds as one field element, is written as
   its digest.  The permutation is a function of the whole state: the state
   after a permutation is identified by the state before it (base and cells),
   and the element squeezed from it is ro[that key]. *)

TRANSCRIPT_INIT == <<70, 83, 118, 49, 45, 84, 82, 65, 78, 83, 67, 82, 73, 80, 84, 45, 73, 78, 73, 84>>
ABSORB_BYTES == <<70, 83, 118, 49, 45, 65, 66, 83, 79, 82, 66, 45, 66, 89, 84, 69, 83>>
CHALLENGE == <<70, 83, 118, 49, 45, 67, 72, 65, 76, 76, 69, 78, 71, 69>>

T == 17
RATE == 16

ZeroWord == <<0, 0, 0, 0, 0, 0, 0, 0>>

\* the canonical value below the modulus 2^64 - 2^32 + 1 of a 64-bit word:
\* a word 0xFFFFFFFF_xxxxxxxx with xxxxxxxx >= 1 is reduced to xxxxxxxx - 1
RECURSIVE DecLE(_)
DecLE(bs) ==
    IF bs = <<>> THEN <<>>
    ELSE IF Head(bs) > 0 THEN <<Head(bs) - 1>> \o Tail(bs)
    ELSE <<255>> \o DecLE(Tail(bs))

FromU64(w) ==
    IF SubSeq(w, 5, 8) = <<255, 255, 255, 255>> /\ SubSeq(w, 1, 4) # <<0, 0, 0, 0>>
    THEN DecLE(SubSeq(w, 1, 4)) \o <<0, 0, 0, 0>>
    ELSE w

\* bytes_to_field_u64: the first 8 bytes, zero-padded, as a little-endian u64
BytesToFieldU64(bytes) ==
    FromU64([i \in 1..8 |-> IF i <= Len(bytes) THEN bytes[i] ELSE 0])

DomainTagToField(tag) == BytesToFieldU64(tag)

\* bytes_to_field_words: chunks(8) mapped through bytes_to_field_u64
RECURSIVE BytesToFieldWords(_)
BytesToFieldWords(bytes) ==
    IF bytes = <<>> THEN <<>>
    ELSE IF Len(bytes) <= 8 THEN <<BytesToFieldU64(bytes)>>
    ELSE <<BytesToFieldU64(SubSeq(bytes, 1, 8))>>
            \o BytesToFieldWords(SubSeq(bytes, 9, Len(bytes)))

\* F::from(x) for a small integer x, as a cell
FieldCell(x) == <<x % 256, x \div 256, 0, 0, 0, 0, 0, 0>>

\* state[pos] += x on a cell: every cell is written at most once between two
\* permutations, and adding to a cell that holds zero leaves x
CellAdd(c, x) == IF c = ZeroWord THEN x ELSE IF x = ZeroWord THEN c ELSE c \o x

\* permute(&mut state)
Permute(sp) ==
    [base |-> <<Len(sp.base)>> \o sp.base \o Flat(sp.cells),
     cells |-> [i \in 1..T |-> ZeroWord],
     pos |-> sp.pos]

\* absorb_field_internal
AbsorbFieldInternal(sp, x) ==
    LET s1 == IF sp.pos = RATE THEN [Permute(sp) EXCEPT !.pos = 0] ELSE sp
    IN [s1 EXCEPT !.cells[s1.pos + 1] = CellAdd(@, x), !.pos = @ + 1]

RECURSIVE AbsorbWords(_, _)
AbsorbWords(sp, ws) ==
    IF ws = <<>> THEN sp ELSE AbsorbWords(AbsorbFieldInternal(sp, Head(ws)), Tail(ws))

\* absorb_bytes
AbsorbBytes(sp, bytes) ==
    AbsorbWords(AbsorbFieldInternal(sp, DomainTagToField(ABSORB_BYTES)),
                BytesToFieldWords(bytes))

\* absorb_field
AbsorbField(sp, x) == AbsorbFieldInternal(sp, x)

\* mutant: pos is left where it was
SqueezeKeepPos(sp) == Permute(sp)

\* squeeze: the state after the permutation; the value returned is its cell 0
Squeeze(sp) == [Permute(sp) EXCEPT !.pos = 0]

\* challenge(label): the state after the call; the value returned is
\* ro[ChallengeKey(sp, label)]
ChallengeState(sp, label) ==
    Squeeze(AbsorbBytes(AbsorbFieldInternal(sp, DomainTagToField(CHALLENGE)), label))

ChallengeKey(sp, label) == ChallengeState(sp, label).base

\* PoseidonBackend::new(params, init_label) / Transcript::new
TranscriptNew(init_label) ==
    AbsorbBytes([base |-> <<>>,
                 cells |-> [i \in 1..T |-> IF i = T THEN DomainTagToField(TRANSCRIPT_INIT)
                                                   ELSE ZeroWord],
                 pos |-> 0],
                init_label)

\* The permutation is a function: a key seen before gives the value it gave.
Sampled(k, v) == k \in DOMAIN ro => ro[k] = v

\* ro extended by the pairs of ks and vs (sequences of equal length)
Extend(f, ks, vs) ==
    [k \in DOMAIN f \cup {ks[i] : i \in 1..Len(ks)} |->
        IF k \in DOMAIN f THEN f[k]
        ELSE vs[CHOOSE i \in 1..Len(ks) : ks[i] = k]]

\* vs is an answer to the queries ks that agrees with ro and with itself
Answers(ks, vs) ==
    /\ \A i \in 1..Len(ks) : Sampled(ks[i], vs[i])
    /\ \A i, j \in 1..Len(ks) : ks[i] = ks[j] => vs[i] = vs[j]
-----------------------------------------------------------------------------
(* DEEP-ALI merge: crates/deep_ali/src/lib.rs *)

RECURSIVE SumRange(_, _, _)
\* the field sum of s[lo..hi]
SumRange(s, lo, hi) ==
    IF lo > hi THEN 0
    ELSE IF lo = hi THEN s[lo]
    ELSE LET mid == (lo + hi) \div 2
         IN FAdd(SumRange(s, lo, mid), SumRange(s, mid + 1, hi))

\* the field sum of a sequence
SumF(s) == SumRange(s, 1, Len(s))

\* Phi(omega^j) = a_j * s_j + e_j - t_j (no blinding)
PhiEval(a, s, e, t) ==
    [i \in 1..Len(a) |-> FSub(FAdd(FMul(a[i], s[i]), e[i]), t[i])]

\* the assertions and unwraps of the merge
MergePanics(n, omega, z) ==
    \/ n <= 1
    \/ ~IsPowerOfTwo(n)
    \/ \E j \in 1..n : Fp3InvPanics(Fp3Sub(z, Fp3FromBase(FPow(omega, j - 1))))
    \/ n \div 32 = 0

\* f0(omega^j) = Phi(omega^j) / (omega^j - z), projected to the first component
MergeQuotient(phi, omega, z) ==
    [j \in 1..Len(phi) |->
        Fp3Mul(Fp3FromBase(phi[j]),
               Fp3Inv(Fp3Sub(Fp3FromBase(FPow(omega, j - 1)), z)))[1]]

\* mutant: the interpolant is not truncated
IfftUntruncated(ev, omega, d) ==
    LET n == Len(ev)
        pows == OmegaPows(omega, n)
        n_inv == FInv(n % P)
    IN [k \in 1..n |->
            FMul(n_inv,
                 SumF([j \in 1..n |->
                        FMul(ev[j], pows[((n - (((j - 1) * (k - 1)) % n)) % n) + 1])]))]

\* domain.ifft(ev), of which the first d coefficients are kept (truncate)
IfftTruncated(ev, omega, d) ==
    LET n == Len(ev)
        pows == OmegaPows(omega, n)
        n_inv == FInv(n % P)
    IN [k \in 1..(IF d < n THEN d ELSE n) |->
            FMul(n_inv,
                 SumF([j \in 1..n |->
                        FMul(ev[j], pows[((n - (((j - 1) * (k - 1)) % n)) % n) + 1])]))]

\* domain.fft(coeffs) over the domain of order n
Fft(coeffs, omega, n) ==
    LET pows == OmegaPows(omega, n)
    IN [j \in 1..n |->
            SumF([k \in 1..Len(coeffs) |->
                    FMul(coeffs[k], pows[(((j - 1) * (k - 1)) % n) + 1])])]

\* mutant: the quotient's evaluations are returned as they are
MergeEvalsQuotientOnly(a, s, e, t, omega, z) ==
    MergeQuotient(PhiEval(a, s, e, t), omega, z)

\* deep_ali_merge_evals: the codeword returned
MergeEvals(a, s, e, t, omega, z) ==
    LET n == Len(a)
        f0_eval == MergeQuotient(PhiEval(a, s, e, t), omega, z)
        d0 == n \div 32
    IN Fft(IfftTruncated(f0_eval, omega, d0), omega, n)

-----------------------------------------------------------------------------
(* DEEP-FRI: crates/deep_ali/src/fri.rs *)

FRI_FS == <<70, 82, 73, 47, 70, 83>>
FRI_SEED == <<70, 82, 73, 47, 115, 101, 101, 100>>
FRI_INDEX == <<70, 82, 73, 47, 105, 110, 100, 101, 120>>
OUT == <<111, 117, 116>>
DEEP_FRI_STATEMENT == <<68, 69, 69, 80, 45, 70, 82, 73, 45, 83, 84, 65, 84, 69, 77, 69, 78, 84>>
Z_FP3_A0 == <<122, 95, 102, 112, 51, 47, 97, 48>>
Z_FP3_A1 == <<122, 95, 102, 112, 51, 47, 97, 49>>
Z_FP3_A2 == <<122, 95, 102, 112, 51, 47, 97, 50>>

\* one call on a transcript, as it is logged
Call(op, arg) == [op |-> op, arg |-> arg]

RECURSIVE AbsorbFields(_, _)
AbsorbFields(sp, cells) ==
    IF cells = <<>> THEN sp ELSE AbsorbFields(AbsorbField(sp, Head(cells)), Tail(cells))

\* bind_statement_to_transcript: the fields absorbed after the tag
StatementFields(schedule, n0, seed_z) ==
    <<FieldCell(n0), FieldCell(Len(schedule))>>
        \o [i \in 1..Len(schedule) |-> FieldCell(schedule[i])]
        \o <<FromU64(seed_z)>>

BindStatement(sp, schedule, n0, seed_z) ==
    AbsorbFields(AbsorbBytes(sp, DEEP_FRI_STATEMENT), StatementFields(schedule, n0, seed_z))

BindStatementCalls(schedule, n0, seed_z) ==
    <<Call("absorb_bytes", DEEP_FRI_STATEMENT)>>
        \o [i \in 1..(Len(schedule) + 3) |->
                Call("absorb_field", StatementFields(schedule, n0, seed_z)[i])]

\* three challenge calls in a row: the keys squeezed and the state after
ThreeChallenges(sp, l0, l1, l2) ==
    LET s1 == ChallengeState(sp, l0)
        s2 == ChallengeState(s1, l1)
        s3 == ChallengeState(s2, l2)
    IN [keys |-> <<s1.base, s2.base, s3.base>>,
        calls |-> <<Call("challenge", l0), Call("challenge", l1), Call("challenge", l2)>>,
        sp |-> s3]

\* mutant: the verifier draws the coordinates under exchanged labels
VerifierZSwapped(schedule, n0, seed_z) ==
    ThreeChallenges(BindStatement(TranscriptNew(FRI_FS), schedule, n0, seed_z),
                    Z_FP3_A1, Z_FP3_A0, Z_FP3_A2)

\* fri_build_transcript: transcript, statement, z_fp3
ProverZ(schedule, n0, seed_z) ==
    ThreeChallenges(BindStatement(TranscriptNew(FRI_FS), schedule, n0, seed_z),
                    Z_FP3_A0, Z_FP3_A1, Z_FP3_A2)

\* deep_fri_verify: transcript, statement, z_fp3
VerifierZ(schedule, n0, seed_z) ==
    ThreeChallenges(BindStatement(TranscriptNew(FRI_FS), schedule, n0, seed_z),
                    Z_FP3_A0, Z_FP3_A1, Z_FP3_A2)

\* tr_hash_fields_tagged(tag, fields): the key of the value returned
TrHashFieldsTagged(tag, cells) ==
    ChallengeKey(AbsorbFields(AbsorbBytes(TranscriptNew(FRI_FS), tag), cells), OUT)

\* fs_seed_from_roots
FsSeedFromRoots(roots) == TrHashFieldsTagged(FRI_SEED, roots)

\* index_seed(roots_seed, ell, q)
IndexSeed(roots_seed, ell, q) ==
    TrHashFieldsTagged(FRI_INDEX, <<FieldCell(roots_seed), FieldCell(ell), FieldCell(q)>>)

\* StdRng::from_seed(seed).gen::<u64>(): a function of the seed, kept in ro
\* under a key no sponge produces
RngKey(seed_f) == <<-1, seed_f>>

NextPowerOfTwo(n) == Pow2(CHOOSE k \in 0..16 : Pow2(k) >= n /\ \A j \in 0..(k - 1) : Pow2(j) < n)

\* index_from_seed(seed, n_pow2) given the 64 bits raw drawn from the generator
IndexFromSeed(raw, n_pow2) == raw % n_pow2

\* build_z_pows / fri_fold_layer_impl: out[b] = sum_j evals[b + j * n_next] * z^j
FoldLayer(evals, z_l, folding_factor) ==
    LET n_next == Len(evals) \div folding_factor
    IN [b \in 1..n_next |->
            SumF([j \in 1..folding_factor |->
                    FMul(evals[b + (j - 1) * n_next], FPow(z_l, j - 1))])]

\* mutant: every folded value is repeated over a contiguous run of m indices
ComputeSLayerContiguous(f_l, z_l, m) ==
    LET folded == FoldLayer(f_l, z_l, m)
    IN [i \in 1..Len(f_l) |-> folded[((i - 1) \div m) + 1]]

\* mutant: the folded value of the next bucket is written
ComputeSLayerShifted(f_l, z_l, m) ==
    LET n_next == Len(f_l) \div m
        folded == FoldLayer(f_l, z_l, m)
    IN [i \in 1..Len(f_l) |-> folded[(i % n_next) + 1]]

\* compute_s_layer: s[b + j * n_next] = folded[b]
ComputeSLayer(f_l, z_l, m) ==
    LET n_next == Len(f_l) \div m
        folded == FoldLayer(f_l, z_l, m)
    IN [i \in 1..Len(f_l) |-> folded[((i - 1) % n_next) + 1]]

\* compute_q_layer_fp3: denom.inv() unwraps the inverse of every component
QLayerPanics(n, z, omega) ==
    \E i \in 1..n : Fp3InvPanics(Fp3Sub(Fp3FromBase(FPow(omega, i - 1)), z))

\* mutant: f_l[0] is not subtracted in the numerator
ComputeQLayerNoF0(f_l, z, omega) ==
    [i \in 1..Len(f_l) |->
        Fp3Mul(Fp3FromBase(f_l[i]),
               Fp3Inv(Fp3Sub(Fp3FromBase(FPow(omega, i - 1)), z)))]

\* compute_q_layer_fp3: q[i] = (f_l[i] - f_l[0]) / (omega^i - z) in each component
ComputeQLayerFp3(f_l, z, omega) ==
    [i \in 1..Len(f_l) |->
        Fp3Mul(Fp3FromBase(FSub(f_l[i], f_l[1])),
               Fp3Inv(Fp3Sub(Fp3FromBase(FPow(omega, i - 1)), z)))]

PickArityForLayer(n, requested_m) ==
    IF requested_m >= 128 /\ n % 128 = 0 THEN 128
    ELSE IF requested_m >= 64 /\ n % 64 = 0 THEN 64
    ELSE IF requested_m >= 32 /\ n % 32 = 0 THEN 32
    ELSE IF requested_m >= 16 /\ n % 16 = 0 THEN 16
    ELSE IF requested_m >= 8 /\ n % 8 = 0 THEN 8
    ELSE IF requested_m >= 4 /\ n % 4 = 0 THEN 4
    ELSE IF n % 2 = 0 THEN 2
    ELSE 1

RECURSIVE MerkleDepthLoop(_, _, _)
MerkleDepthLoop(cur, arity, depth) ==
    IF cur > arity
    THEN MerkleDepthLoop((cur + arity - 1) \div arity, arity, depth + 1)
    ELSE depth

MerkleDepth(leaves, arity) == MerkleDepthLoop(leaves, arity, 1)

Max2(a) == IF a >= 2 THEN a ELSE 2

\* MerkleChannelCfg::new(vec![arity; depth], ell) of layer ell (0-based)
LayerCfg(n, m, ell) ==
    LET arity == Max2(PickArityForLayer(n, m))
    IN [layer_arities |-> Repeat(arity, MerkleDepth(n, arity)), tree_label |-> ell]

\* the leaf of index i: (f, s, q.a0, q.a1, q.a2)
LeafValues5(f_l, s_l, q_l, i) ==
    <<Fv(f_l[i]), Fv(s_l[i]), Fv(q_l[i][1]), Fv(q_l[i][2]), Fv(q_l[i][3])>>

\* push_leaf for every index, then finalize: the levels of the tree
CommitLayer(cfg, f_l, s_l, q_l) ==
    FinalizeLoop(cfg,
                 <<[i \in 1..Len(f_l) |-> LeafDigest(cfg, i - 1, LeafValues5(f_l, s_l, q_l, i))]>>,
                 0).levels

RECURSIVE BuildLayers(_, _, _, _)
\* fri_build_transcript's loop over the schedule from layer ell (1-based):
\* [ok, f, q, w]; ok is FALSE when an inversion or the divisibility assertion
\* aborts.
BuildLayers(cur_f, schedule, ell, z) ==
    IF ell > Len(schedule)
    THEN [ok |-> TRUE, f |-> <<cur_f>>, q |-> <<>>, w |-> <<>>]
    ELSE LET m == schedule[ell]
             n == Len(cur_f)
             omega == GroupGen(n)
         IN IF QLayerPanics(n, z, omega) \/ n % m # 0
            THEN [ok |-> FALSE, f |-> <<>>, q |-> <<>>, w |-> <<>>]
            ELSE LET rest == BuildLayers(FoldLayer(cur_f, z[1], m), schedule, ell + 1, z)
                 IN [ok |-> rest.ok,
                     f |-> <<cur_f>> \o rest.f,
                     q |-> <<ComputeQLayerFp3(cur_f, z, omega)>> \o rest.q,
                     w |-> <<omega>> \o rest.w]

\* fri_build_transcript: the s-layers, the last one all zero
SLayers(f_layers, schedule, z) ==
    [ell \in 1..(Len(schedule) + 1) |->
        IF ell <= Len(schedule)
        THEN ComputeSLayer(f_layers[ell], z[1], schedule[ell])
        ELSE [i \in 1..Len(f_layers[ell]) |-> 0]]

\* fri_build_transcript: FriProverState with the committed trees, from the
\* layers b that BuildLayers returned
ProverState(b, schedule, z) ==
    LET s == SLayers(b.f, schedule, z)
        trees == [ell \in 1..Len(schedule) |->
                    CommitLayer(LayerCfg(Len(b.f[ell]), schedule[ell], ell - 1),
                                b.f[ell], s[ell], b.q[ell])]
    IN [f_layers |-> b.f, s_layers |-> s, q_layers |-> b.q, omega_layers |-> b.w,
        schedule |-> schedule, trees |-> trees,
        roots |-> [ell \in 1..Len(schedule) |-> Last(trees[ell])[1]]]

RECURSIVE QueryRefsContiguous(_, _, _)
\* mutant: the parent of i is i / m
QueryRefsContiguous(st, ell, i) ==
    IF ell > Len(st.schedule) THEN <<>>
    ELSE LET m == st.schedule[ell]
         IN <<[i |-> i, child_pos |-> i % m, parent_index |-> i \div m, parent_pos |-> 0]>>
            \o QueryRefsContiguous(st, ell + 1, i \div m)

RECURSIVE QueryRefs(_, _, _)
\* fri_prove_queries: the per-layer references of one query from layer ell on
QueryRefs(st, ell, i) ==
    IF ell > Len(st.schedule) THEN <<>>
    ELSE LET n == Len(st.f_layers[ell])
             m == st.schedule[ell]
             n_next == n \div m
         IN <<[i |-> i, child_pos |-> i % m, parent_index |-> i % n_next, parent_pos |-> 0]>>
            \o QueryRefs(st, ell + 1, i % n_next)

\* deep_fri_prove: the payload of one reference
LayerPayload(st, ell, rref) ==
    [f_i |-> st.f_layers[ell][rref.i + 1],
     f_0 |-> st.f_layers[ell][1],
     s_i |-> st.s_layers[ell][rref.i + 1],
     q |-> st.q_layers[ell][rref.i + 1],
     x_i |-> FPow(st.omega_layers[ell], rref.i),
     f_parent_b |-> st.f_layers[ell + 1][rref.parent_index + 1],
     s_parent_b |-> st.s_layers[ell + 1][rref.parent_index + 1]]

\* one query of the proof from its initial index i0: the references, the final
\* pair, the payloads and the openings
ProveQuery(st, i0) ==
    LET L == Len(st.schedule)
        refs == QueryRefs(st, 1, i0)
        final_i == IF L = 0 THEN i0 ELSE refs[L].parent_index
    IN [per_layer_refs |-> refs,
        per_layer_payloads |-> [ell \in 1..L |-> LayerPayload(st, ell, refs[ell])],
        final_index |-> final_i,
        final_pair |-> <<st.f_layers[L + 1][final_i + 1], st.f_layers[L + 1][1]>>,
        openings |-> [ell \in 1..L |->
                        Open(LayerCfg(Len(st.f_layers[ell]), st.schedule[ell], ell - 1),
                             st.trees[ell], refs[ell].i)]]

\* mutant: the size is divided without the divisibility assertion
SizesStepUnchecked(n, m) == [ok |-> TRUE, n |-> n \div m]

\* one iteration of layer_sizes_from_schedule, and of the prover's fold loop
\* (fri_fold_layer_impl's assertion, then cur_size /= m): assert!(n % m == 0)
SizesStep(n, m) ==
    IF n % m = 0 THEN [ok |-> TRUE, n |-> n \div m] ELSE [ok |-> FALSE, n |-> n]

RECURSIVE LayerSizesLoop(_, _, _)
LayerSizesLoop(sizes, schedule, k) ==
    IF k > Len(schedule) THEN [ok |-> TRUE, sizes |-> sizes]
    ELSE LET st == SizesStep(Last(sizes), schedule[k])
         IN IF st.ok THEN LayerSizesLoop(Append(sizes, st.n), schedule, k + 1)
            ELSE [ok |-> FALSE, sizes |-> sizes]

\* layer_sizes_from_schedule(n0, schedule): [ok, sizes]
LayerSizesFromSchedule(n0, schedule) == LayerSizesLoop(<<n0>>, schedule, 1)

\* normalize_fri_schedule(n0, schedule) of the benchmark: [ok, schedule]; ok is
\* FALSE when one of its assertions fires
NormalizeFriSchedule(n0, schedule) ==
    LET s == LayerSizesFromSchedule(n0, schedule)
        n == Last(s.sizes)
    IN IF ~s.ok THEN [ok |-> FALSE, schedule |-> schedule]
       ELSE IF n > 1
       THEN [ok |-> IsPowerOfTwo(n), schedule |-> Append(schedule, n)]
       ELSE [ok |-> TRUE, schedule |-> schedule]

\* mutant: only the first coordinate of the quotient is compared
DeepCheckFirstCoordinate(pay, z) ==
    Fp3Mul(pay.q, Fp3Sub(Fp3FromBase(pay.x_i), z))[1] = Fp3FromBase(FSub(pay.f_i, pay.f_0))[1]

\* deep_fri_verify: q_fp3 * denom == num
DeepCheck(pay, z) ==
    Fp3Mul(pay.q, Fp3Sub(Fp3FromBase(pay.x_i), z)) = Fp3FromBase(FSub(pay.f_i, pay.f_0))

\* deep_fri_verify: the checks of query q at layer ell (both 1-based):
\* "ok", "false", or "panic" when the proof lacks the entry that is indexed
VerifyLayer(params, proof, sizes, z, q, ell) ==
    IF \/ ell > Len(proof.layer_proofs)
       \/ q > Len(proof.layer_proofs[ell])
       \/ ell > Len(proof.roots)
    THEN "panic"
    ELSE LET opening == proof.layer_proofs[ell][q]
             cfg == LayerCfg(sizes[ell], params.schedule[ell], ell - 1)
             mv == VerifyOpening(cfg, proof.roots[ell], opening, <<>>)
             qp == proof.queries[q]
         IN IF mv # "true" THEN mv
            ELSE IF ell > Len(qp.per_layer_refs) \/ ell > Len(qp.per_layer_payloads)
            THEN "panic"
            ELSE LET rref == qp.per_layer_refs[ell]
                     pay == qp.per_layer_payloads[ell]
                 IN IF opening.index # rref.i THEN "false"
                    ELSE IF ~DeepCheck(pay, z) THEN "false"
                    ELSE IF pay.s_i # pay.f_parent_b THEN "false"
                    ELSE "ok"

RECURSIVE VerifyFrom(_, _, _, _, _, _)
\* deep_fri_verify: the loops over the queries and the layers, from (q, ell)
VerifyFrom(params, proof, sizes, z, q, ell) ==
    IF q > params.r THEN "true"
    ELSE IF q > Len(proof.queries) THEN "panic"
    ELSE IF ell > Len(params.schedule)
    THEN IF proof.queries[q].final_pair[1] # proof.queries[q].final_pair[2]
         THEN "false"
         ELSE VerifyFrom(params, proof, sizes, z, q + 1, 1)
    ELSE LET res == VerifyLayer(params, proof, sizes, z, q, ell)
         IN IF res = "ok" THEN VerifyFrom(params, proof, sizes, z, q, ell + 1) ELSE res

\* deep_fri_verify(params, proof) given the z_fp3 it derived
DeepFriVerify(params, proof, z) ==
    LET s == LayerSizesFromSchedule(proof.n0, params.schedule)
    IN IF ~s.ok THEN "panic" ELSE VerifyFrom(params, proof, s.sizes, z, 1, 1)

RECURSIVE SumSeq(_)
\* the sum of a sequence of sizes
SumSeq(s) == IF s = <<>> THEN 0 ELSE Head(s) + SumSeq(Tail(s))

\* mutant: the opened leaf is not counted
ProofSizeWithoutLeaf(proof) ==
    Len(proof.roots) * 8
    + SumSeq([q \in 1..Len(proof.queries) |->
                Len(proof.queries[q].per_layer_payloads) * 9 * 8 + 2 * 8])
    + SumSeq([ell \in 1..Len(proof.layer_proofs) |->
                SumSeq([o \in 1..Len(proof.layer_proofs[ell]) |->
                    8 + SumSeq([k \in 1..Len(proof.layer_proofs[ell][o].path) |->
                                    Len(proof.layer_proofs[ell][o].path[k]) * 8])])])

\* deep_fri_proof_size_bytes(proof)
DeepFriProofSizeBytes(proof) ==
    Len(proof.roots) * 8
    + SumSeq([q \in 1..Len(proof.queries) |->
                Len(proof.queries[q].per_layer_payloads) * 9 * 8 + 2 * 8])
    + SumSeq([ell \in 1..Len(proof.layer_proofs) |->
                SumSeq([o \in 1..Len(proof.layer_proofs[ell]) |->
                    8 + 8 + SumSeq([k \in 1..Len(proof.layer_proofs[ell][o].path) |->
                                        Len(proof.layer_proofs[ell][o].path[k]) * 8])])])
-----------------------------------------------------------------------------
(* The parts of the state a specification does not use keep these values. *)

EmptyFn == [k \in {} |-> 0]
Sides == {"A", "B"}
NoStmt == [n0 |-> 0, schedule |-> <<>>, seed_z |-> ZeroWord]
NoSeed == [key |-> <<>>, value |-> 0]
NoProverState ==
    [f_layers |-> <<>>, s_layers |-> <<>>, q_layers |-> <<>>, omega_layers |-> <<>>,
     schedule |-> <<>>, trees |-> <<>>, roots |-> <<>>]
NoProof == [roots |-> <<>>, layer_proofs |-> <<>>, queries |-> <<>>, n0 |-> 0, omega0 |-> 0]
NoFTamper == [kind |-> "none", ell |-> 0]
NoReturn == [value |-> 0, by |-> "none"]
NoParams == [schedule |-> <<>>, r |-> 0, seed_z |-> ZeroWord]

OracleIdle == ro = EmptyFn

MIdle ==
    /\ m_cfg = [layer_arities |-> <<>>, tree_label |-> 0]
    /\ m_trace = 0 /\ m_levels = <<>> /\ m_root = <<>> /\ m_nfin = 0
    /\ m_open = [leaf |-> <<>>, path |-> <<>>, index |-> 0]
    /\ m_tamper = [kind |-> "none", level |-> 0, a |-> 0, b |-> 0]
    /\ m_vtrace = 0 /\ m_res = "idle"

TIdle ==
    /\ t_init = [x \in Sides |-> <<>>]
    /\ t_sp = [x \in Sides |-> TranscriptNew(<<>>)]
    /\ t_calls = [x \in Sides |-> <<>>]
    /\ t_out = [x \in Sides |-> <<>>]
    /\ t_stmt = [x \in Sides |-> NoStmt]
    /\ t_z = [x \in Sides |-> <<>>]

SIdle ==
    /\ s_n0 = 0 /\ s_sched = <<>> /\ s_who = "none" /\ s_sizes = <<>> /\ s_st = "idle"

FIdle ==
    /\ f_pc = "idle"
    /\ f_in = [n0 |-> 0, c |-> 0, flip |-> FALSE, z |-> <<0, 0, 0>>]
    /\ f_params = NoParams
    /\ f_f0 = <<>>
    /\ f_pz = <<>> /\ f_plog = <<>> /\ f_pseed = NoSeed
    /\ f_st = NoProverState /\ f_proof = NoProof
    /\ f_vz = <<>> /\ f_vlog = <<>> /\ f_res = "none"
    /\ f_tamper = NoFTamper /\ f_size = -1

ZIdle ==
    /\ z_in = [seed_z |-> 0, level |-> 0, domain_size |-> 0]
    /\ z_tries = 0 /\ z_st = "idle" /\ z_ret = NoReturn

PIdle ==
    /\ p_in = [evals |-> <<>>, z_l |-> 0, folding_factor |-> 0, feature |-> FALSE, threads |-> 0]
    /\ p_out = <<>> /\ p_todo = {} /\ p_b = 0 /\ p_st = "idle"

HIdle ==
    /\ h_kind = "none" /\ h_init = <<>> /\ h_bytes = <<>> /\ h_calls = <<>> /\ h_out = <<>>

WIdle == w_a = 0 /\ w_b = 0 /\ w_prod = <<>>

XIdle == PIdle /\ HIdle /\ WIdle
-----------------------------------------------------------------------------
(* The Merkle state machine: a tree under construction and one opening that
   its holder may alter before handing it to verify_opening. *)

\* Arity schedules a tree is built with (each arity >= 2).
MCfgs == { <<2, 2, 2>>, <<3, 3>>, <<4, 4, 4, 4, 4>>, <<2>> }

TraceHashes == {0, 1}
LeafValues == {3}

NoOpening == [leaf |-> <<>>, path |-> <<>>, index |-> 0]
NoTamper == [kind |-> "none", level |-> 0, a |-> 0, b |-> 0]

MInit ==
    /\ m_cfg \in [layer_arities : MCfgs, tree_label : {7}]
    /\ m_trace \in TraceHashes
    /\ m_levels = <<>>
    /\ m_root = <<>>
    /\ m_nfin = 0
    /\ m_open = NoOpening
    /\ m_tamper = NoTamper
    /\ m_vtrace = 0
    /\ m_res = "idle"
    /\ OracleIdle /\ TIdle /\ SIdle /\ FIdle /\ ZIdle /\ XIdle

\* push_leaf(values); leaves are pushed before the tree is finalized
MPushLeaf(v) ==
    /\ m_res = "idle"
    /\ m_nfin = 0
    /\ IF m_levels = <<>> THEN TRUE ELSE Len(m_levels[1]) < MaxLeaves
    /\ LET lv == IF m_levels = <<>> THEN <<(<<>>)>> ELSE m_levels
           idx == Len(lv[1])
       IN m_levels' = [lv EXCEPT ![1] = Append(lv[1], LeafDigest(m_cfg, idx, <<Fv(v)>>))]
    /\ UNCHANGED <<m_cfg, m_trace, m_root, m_nfin, m_open, m_tamper, m_vtrace, m_res>>
    /\ UNCHANGED <<ro, tvars, svars, fvars, zvars, xvars>>

\* finalize()
MFinalize ==
    /\ m_res = "idle"
    /\ m_nfin < 2
    /\ LET r == FinalizeLoop(m_cfg, m_levels, 0)
       IN IF r.ok
          THEN /\ m_levels' = r.levels
               /\ m_root' = Last(r.levels)[1]
               /\ m_res' = m_res
          ELSE /\ m_res' = "panic_finalize"
               /\ UNCHANGED <<m_levels, m_root>>
    /\ m_nfin' = m_nfin + 1
    /\ UNCHANGED <<m_cfg, m_trace, m_open, m_tamper, m_vtrace>>
    /\ UNCHANGED <<ro, tvars, svars, fvars, zvars, xvars>>

\* open(index)
MOpen(i) ==
    /\ m_res = "idle"
    /\ m_nfin >= 1
    /\ IF OpenPanics(m_cfg, m_levels, i)
       THEN m_res' = "panic_open" /\ UNCHANGED m_open
       ELSE m_res' = "opened" /\ m_open' = Open(m_cfg, m_levels, i)
    /\ UNCHANGED <<m_cfg, m_trace, m_levels, m_root, m_nfin, m_tamper, m_vtrace>>
    /\ UNCHANGED <<ro, tvars, svars, fvars, zvars, xvars>>

\* A digest different from d (one byte of it changed).
Bump(d) == IF d = <<>> THEN <<1>> ELSE [d EXCEPT ![Len(d)] = d[Len(d)] + 1]

\* The holder changes the leaf of the opening.
MTamperLeaf ==
    /\ m_res = "opened" /\ m_tamper.kind = "none"
    /\ \E d \in {Bump(m_open.leaf)} \cup {m_levels[1][k] : k \in 1..Len(m_levels[1])} :
          /\ d # m_open.leaf
          /\ m_open' = [m_open EXCEPT !.leaf = d]
    /\ m_tamper' = [NoTamper EXCEPT !.kind = "leaf"]
    /\ UNCHANGED <<m_cfg, m_trace, m_levels, m_root, m_nfin, m_vtrace, m_res>>
    /\ UNCHANGED <<ro, tvars, svars, fvars, zvars, xvars>>

\* The holder changes one sibling value.
MTamperSibling(l, k) ==
    /\ m_res = "opened" /\ m_tamper.kind = "none"
    /\ l \in 1..Len(m_open.path) /\ k \in 1..Len(m_open.path[l])
    /\ \E d \in {Bump(m_open.path[l][k]), m_open.leaf} :
          /\ d # m_open.path[l][k]
          /\ m_open' = [m_open EXCEPT !.path[l][k] = d]
    /\ m_tamper' = [NoTamper EXCEPT !.kind = "sibling", !.level = l, !.a = k]
    /\ UNCHANGED <<m_cfg, m_trace, m_levels, m_root, m_nfin, m_vtrace, m_res>>
    /\ UNCHANGED <<ro, tvars, svars, fvars, zvars, xvars>>

\* The holder changes the index.
MTamperIndex(j) ==
    /\ m_res = "opened" /\ m_tamper.kind = "none"
    /\ j # m_open.index
    /\ m_open' = [m_open EXCEPT !.index = j]
    /\ m_tamper' = [NoTamper EXCEPT !.kind = "index", !.a = j]
    /\ UNCHANGED <<m_cfg, m_trace, m_levels, m_root, m_nfin, m_vtrace, m_res>>
    /\ UNCHANGED <<ro, tvars, svars, fvars, zvars, xvars>>

\* The holder exchanges two entries of one sibling group.
MSwapSiblings(l, a, b) ==
    /\ m_res = "opened" /\ m_tamper.kind = "none"
    /\ l \in 1..Len(m_open.path)
    /\ a \in 1..Len(m_open.path[l]) /\ b \in 1..Len(m_open.path[l]) /\ a < b
    /\ m_open' = [m_open EXCEPT !.path[l][a] = m_open.path[l][b],
                                !.path[l][b] = m_open.path[l][a]]
    /\ m_tamper' = [kind |-> "swap", level |-> l, a |-> a, b |-> b]
    /\ UNCHANGED <<m_cfg, m_trace, m_levels, m_root, m_nfin, m_vtrace, m_res>>
    /\ UNCHANGED <<ro, tvars, svars, fvars, zvars, xvars>>

\* The holder changes the size of the sibling list: one group made longer
\* or shorter, or a group removed from or added to the path.
MResize(kind, l) ==
    /\ m_res = "opened" /\ m_tamper.kind = "none"
    /\ \/ /\ kind = "long" /\ l \in 1..Len(m_open.path)
          /\ m_open' = [m_open EXCEPT !.path[l] = Append(@, m_open.leaf)]
       \/ /\ kind = "short" /\ l \in 1..Len(m_open.path)
          /\ m_open' = [m_open EXCEPT !.path[l] = SubSeq(@, 1, Len(@) - 1)]
       \/ /\ kind = "fewer" /\ l = Len(m_open.path) /\ l >= 1
          /\ m_open' = [m_open EXCEPT !.path = SubSeq(@, 1, Len(@) - 1)]
       \/ /\ kind = "more" /\ l = Len(m_open.path) + 1
          /\ m_open' = [m_open EXCEPT !.path =
                            Append(@, Repeat(m_open.leaf, m_cfg.layer_arities[1] - 1))]
    /\ m_tamper' = [NoTamper EXCEPT !.kind = kind, !.level = l]
    /\ UNCHANGED <<m_cfg, m_trace, m_levels, m_root, m_nfin, m_vtrace, m_res>>
    /\ UNCHANGED <<ro, tvars, svars, fvars, zvars, xvars>>

\* verify_opening(cfg, root, opening, trace_hash)
MVerify(t) ==
    /\ m_res = "opened"
    /\ m_vtrace' = t
    /\ m_res' = VerifyOpening(m_cfg, m_root, m_open, t)
    /\ UNCHANGED <<m_cfg, m_trace, m_levels, m_root, m_nfin, m_open, m_tamper>>
    /\ UNCHANGED <<ro, tvars, svars, fvars, zvars, xvars>>

MNext ==
    \/ \E v \in LeafValues : MPushLeaf(v)
    \/ MFinalize
    \/ \E i \in 0..MaxLeaves : MOpen(i)
    \/ MTamperLeaf
    \/ \E l \in 1..MaxLeaves, k \in 1..MaxLeaves : MTamperSibling(l, k)
    \/ \E j \in 0..MaxTamperIndex : MTamperIndex(j)
    \/ \E l \in 1..MaxLeaves, a \in 1..MaxLeaves, b \in 1..MaxLeaves : MSwapSiblings(l, a, b)
    \/ \E kind \in {"long", "short", "fewer", "more"}, l \in 1..MaxLeaves : MResize(kind, l)
    \/ \E t \in TraceHashes : MVerify(t)

SpecMerkle == MInit /\ [][MNext]_vars

-----------------------------------------------------------------------------
(* Two transcripts driven call by call, and the transcripts that the prover
   (side "A") and the verifier (side "B") build for a statement. *)

\* values the permutation yields (1 is a point of every domain)
ChallengePool == {1, 2}

\* 13 words: with the tag of absorb_bytes they fill the rate of a new transcript
RateFillingBytes == [i \in 1..104 |-> 1]
TBytes == { <<97>>, <<97, 0>>, RateFillingBytes }
TFields == { ZeroWord }
TLabels == { OUT, OUT \o <<0>> }
SeedZs == { <<173, 186, 239, 222, 0, 0, 0, 0>>, <<1, 0, 0, 0, 0, 0, 0, 0>> }
TStatements ==
    { [n0 |-> 32, schedule |-> <<8, 4>>, seed_z |-> sz] : sz \in SeedZs }
        \cup { [n0 |-> 32, schedule |-> <<2, 2, 2, 2, 2>>, seed_z |-> sz] : sz \in SeedZs }

TInit ==
    /\ ro = EmptyFn
    /\ t_init \in { [x \in Sides |-> IF x = "A" THEN FRI_FS ELSE l] : l \in {FRI_FS, OUT} }
    /\ t_sp = [x \in Sides |-> TranscriptNew(t_init[x])]
    /\ t_calls = [x \in Sides |-> <<>>]
    /\ t_out = [x \in Sides |-> <<>>]
    /\ t_stmt = [x \in Sides |-> NoStmt]
    /\ t_z = [x \in Sides |-> <<>>]
    /\ MIdle /\ SIdle /\ FIdle /\ ZIdle /\ XIdle

TCanCall(x) == t_stmt[x] = NoStmt /\ Len(t_calls[x]) < MaxCalls

\* absorb_bytes(bytes) on side x
TAbsorbBytes(x, bytes) ==
    /\ TCanCall(x)
    /\ t_sp' = [t_sp EXCEPT ![x] = AbsorbBytes(@, bytes)]
    /\ t_calls' = [t_calls EXCEPT ![x] = Append(@, Call("absorb_bytes", bytes))]
    /\ UNCHANGED <<ro, t_init, t_out, t_stmt, t_z>>
    /\ UNCHANGED <<mvars, svars, fvars, zvars, xvars>>

\* absorb_field(v) on side x
TAbsorbField(x, v) ==
    /\ TCanCall(x)
    /\ t_sp' = [t_sp EXCEPT ![x] = AbsorbField(@, v)]
    /\ t_calls' = [t_calls EXCEPT ![x] = Append(@, Call("absorb_field", v))]
    /\ UNCHANGED <<ro, t_init, t_out, t_stmt, t_z>>
    /\ UNCHANGED <<mvars, svars, fvars, zvars, xvars>>

\* challenge(label) on side x, returning v
TChallenge(x, label, v) ==
    /\ TCanCall(x)
    /\ Sampled(ChallengeKey(t_sp[x], label), v)
    /\ ro' = Extend(ro, <<ChallengeKey(t_sp[x], label)>>, <<v>>)
    /\ t_sp' = [t_sp EXCEPT ![x] = ChallengeState(@, label)]
    /\ t_calls' = [t_calls EXCEPT ![x] = Append(@, Call("challenge", label))]
    /\ t_out' = [t_out EXCEPT ![x] = Append(@, v)]
    /\ UNCHANGED <<t_init, t_stmt, t_z>>
    /\ UNCHANGED <<mvars, svars, fvars, zvars, xvars>>

\* side x becomes the transcript that d (ProverZ or VerifierZ of a statement)
\* builds, and zs the three values it returns
TStatement(x, stmt, d, zs) ==
    /\ t_calls[x] = <<>>
    /\ Answers(d.keys, zs)
    /\ ro' = Extend(ro, d.keys, zs)
    /\ t_init' = [t_init EXCEPT ![x] = FRI_FS]
    /\ t_sp' = [t_sp EXCEPT ![x] = d.sp]
    /\ t_calls' = [t_calls EXCEPT ![x] =
                     BindStatementCalls(stmt.schedule, stmt.n0, stmt.seed_z) \o d.calls]
    /\ t_out' = [t_out EXCEPT ![x] = zs]
    /\ t_stmt' = [t_stmt EXCEPT ![x] = stmt]
    /\ t_z' = [t_z EXCEPT ![x] = zs]
    /\ UNCHANGED <<mvars, svars, fvars, zvars, xvars>>

\* fri_build_transcript up to z_fp3
TProverStatement(stmt, zs) ==
    TStatement("A", stmt, ProverZ(stmt.schedule, stmt.n0, stmt.seed_z), zs)

\* deep_fri_verify up to z_fp3
TVerifierStatement(stmt, zs) ==
    TStatement("B", stmt, VerifierZ(stmt.schedule, stmt.n0, stmt.seed_z), zs)

Triples(S) == { <<a, b, c>> : a \in S, b \in S, c \in S }

TNext ==
    \/ \E x \in Sides, bytes \in TBytes : TAbsorbBytes(x, bytes)
    \/ \E x \in Sides, v \in TFields : TAbsorbField(x, v)
    \/ \E x \in Sides, label \in TLabels, v \in ChallengePool : TChallenge(x, label, v)
    \/ \E stmt \in TStatements, zs \in Triples(ChallengePool) : TProverStatement(stmt, zs)
    \/ \E stmt \in TStatements, zs \in Triples(ChallengePool) : TVerifierStatement(stmt, zs)

SpecTranscript == TInit /\ [][TNext]_vars

-----------------------------------------------------------------------------
(* The layer sizes of a schedule, at the sizes the benchmarks and the
   scenarios use. *)

SSchedules ==
    { <<16, 16, 8>>, <<16, 16, 16, 16>>, <<32, 32, 32>>, <<64, 64, 8>>, <<128, 32, 8>>,
      <<32, 32, 32, 16>>, <<16, 16, 8, 4>> }

SInit ==
    /\ s_n0 \in { Pow2(k) : k \in 8..16 }
    /\ s_sched \in SSchedules
    /\ s_who \in {"prover", "verifier"}
    /\ s_sizes = <<s_n0>>
    /\ s_st = "run"
    /\ OracleIdle /\ MIdle /\ TIdle /\ FIdle /\ ZIdle /\ XIdle

\* the step of s_who's loop over the schedule
SStep(who) ==
    /\ s_st = "run" /\ s_who = who
    /\ IF Len(s_sizes) > Len(s_sched)
       THEN s_st' = "done" /\ UNCHANGED s_sizes
       ELSE LET st == SizesStep(Last(s_sizes), s_sched[Len(s_sizes)])
            IN IF st.ok
               THEN s_sizes' = Append(s_sizes, st.n) /\ UNCHANGED s_st
               ELSE s_st' = "panic" /\ UNCHANGED s_sizes
    /\ UNCHANGED <<s_n0, s_sched, s_who>>
    /\ UNCHANGED <<mvars, ro, tvars, fvars, zvars, xvars>>

\* fri_build_transcript: one layer folded (fri_fold_layer_impl)
SFoldStep == SStep("prover")

\* layer_sizes_from_schedule: one size pushed
SSizesStep == SStep("verifier")

SNext == SFoldStep \/ SSizesStep

SpecSizes == SInit /\ [][SNext]_vars
-----------------------------------------------------------------------------
(* One run of the benchmark's pipeline: deep_ali_merge_evals, deep_fri_prove
   (fri_build_transcript, fs_seed_from_roots, fri_prove_queries) and
   deep_fri_verify. *)

\* values the transcript yields for z_fp3 (1 is a point of every domain)
ZPool == { <<2, 5, 7>>, <<1, 2, 5>>, <<5, 7, 1>> }
\* the seed_z of DeepFriParams
FSeedZs == { <<173, 186, 239, 222, 0, 0, 0, 0>> }
\* values the transcript yields for seeds
SeedPool == {4, 6}
\* values the seeded generator yields
RawPool == {5, 70}

\* the challenge handed to the merge by its caller (1 is a domain point)
MergeZs == { <<2, 5, 7>>, <<5, 1, 7>> }

FSizes == {16, 32, 64}

\* folding schedules tried for a domain of size n0: normalized ones, one whose
\* product is below n0, one that does not divide n0, the empty one, one with a
\* factor that is not a power of two
FSchedules(n0) ==
    IF n0 = 64 THEN { <<8, 8>>, <<4, 4, 4>>, <<4, 4>> }
    ELSE IF n0 = 32 THEN { <<2, 2, 2, 2, 2>>, <<8, 4>>, <<8, 8>>, <<>>, <<6>> }
    ELSE { <<4, 4>> }

\* the low bit of a value flipped
FlipLowBit(x) == IF x % 2 = 0 THEN x + 1 ELSE x - 1

\* the evaluation vectors (a, s, e, t) of the caller
AEval(n, c, flip) ==
    [i \in 1..n |-> IF i = 1 /\ flip THEN FlipLowBit(c % P) ELSE (c + 5 * (i - 1) * (i - 1)) % P]
SEval(n) == [i \in 1..n |-> (2 + 3 * (i - 1)) % P]
EEval(n, c) == [i \in 1..n |-> (7 * (i - 1) + c) % P]
TEval(n) == [i \in 1..n |-> ((i - 1) * (i - 1) * (i - 1) + 1) % P]

FInit ==
    /\ ro = EmptyFn
    /\ f_pc = "start"
    /\ f_in \in [n0 : FSizes, c : {4}, flip : BOOLEAN, z : MergeZs]
    /\ f_params = NoParams
    /\ f_f0 = <<>>
    /\ f_pz = <<>> /\ f_plog = <<>> /\ f_pseed = NoSeed
    /\ f_st = NoProverState /\ f_proof = NoProof
    /\ f_vz = <<>> /\ f_vlog = <<>> /\ f_res = "none"
    /\ f_tamper = NoFTamper /\ f_size = -1
    /\ MIdle /\ TIdle /\ SIdle /\ ZIdle /\ XIdle

\* deep_ali_merge_evals(a, s, e, t, omega, z)
FMerge ==
    /\ f_pc = "start"
    /\ LET n == f_in.n0
           omega == GroupGen(n)
       IN IF MergePanics(n, omega, f_in.z)
          THEN f_pc' = "merge_panic" /\ UNCHANGED f_f0
          ELSE /\ f_pc' = "merged"
               /\ f_f0' = MergeEvals(AEval(n, f_in.c, f_in.flip), SEval(n),
                                     EEval(n, f_in.c), TEval(n), omega, f_in.z)
    /\ UNCHANGED <<ro, f_in, f_params, f_pz, f_plog, f_pseed, f_st, f_proof, f_vz, f_vlog, f_res, f_tamper, f_size>>
    /\ UNCHANGED <<mvars, tvars, svars, zvars, xvars>>

\* deep_fri_prove, first part: fri_build_transcript
FBuildTranscript(schedule, r, seed_z, zs, sv) ==
    /\ f_pc = "merged"
    /\ LET d == ProverZ(schedule, f_in.n0, seed_z)
           seed_key == ChallengeKey(d.sp, FRI_SEED)
           b == BuildLayers(f_f0, schedule, 1, zs)
       IN IF b.ok
          THEN /\ Answers(Append(d.keys, seed_key), Append(zs, sv))
               /\ ro' = Extend(ro, Append(d.keys, seed_key), Append(zs, sv))
               /\ f_plog' = BindStatementCalls(schedule, f_in.n0, seed_z) \o d.calls
                               \o <<Call("challenge", FRI_SEED)>>
               /\ f_st' = ProverState(b, schedule, zs)
               /\ f_proof' = [roots |-> f_st'.roots,
                              layer_proofs |-> [ell \in 1..Len(schedule) |-> <<>>],
                              queries |-> <<>>,
                              n0 |-> f_in.n0,
                              omega0 |-> GroupGen(f_in.n0)]
               /\ f_pc' = "built"
          ELSE /\ Answers(d.keys, zs)
               /\ ro' = Extend(ro, d.keys, zs)
               /\ f_plog' = BindStatementCalls(schedule, f_in.n0, seed_z) \o d.calls
               /\ f_pc' = "prove_panic"
               /\ UNCHANGED <<f_st, f_proof>>
    /\ f_params' = [schedule |-> schedule, r |-> r, seed_z |-> seed_z]
    /\ f_pz' = zs
    /\ UNCHANGED <<f_in, f_f0, f_pseed, f_vz, f_vlog, f_res, f_tamper, f_size>>
    /\ UNCHANGED <<mvars, tvars, svars, zvars, xvars>>

\* deep_fri_prove, second part: roots_seed = fs_seed_from_roots(roots)
FSeedFromRoots(v) ==
    /\ f_pc = "built"
    /\ Sampled(FsSeedFromRoots(f_st.roots), v)
    /\ ro' = Extend(ro, <<FsSeedFromRoots(f_st.roots)>>, <<v>>)
    /\ f_pseed' = [key |-> FsSeedFromRoots(f_st.roots), value |-> v]
    /\ f_pc' = IF f_params.r = 0 THEN "proved" ELSE "seeded"
    /\ UNCHANGED <<f_in, f_params, f_f0, f_pz, f_plog, f_st, f_proof, f_vz, f_vlog, f_res, f_tamper, f_size>>
    /\ UNCHANGED <<mvars, tvars, svars, zvars, xvars>>

\* deep_fri_prove, third part: query q of fri_prove_queries and its payloads;
\* sv is the value of index_seed, raw the 64 bits the generator seeded with
\* it yields
FQuery(sv, raw) ==
    /\ f_pc = "seeded"
    /\ IF Len(f_st.schedule) = 0
       THEN \* st.transcript.layers[0] is out of range
            /\ f_pc' = "prove_panic"
            /\ f_proof' = NoProof
            /\ UNCHANGED ro
       ELSE LET q == Len(f_proof.queries)
                n == Len(f_st.f_layers[1])
                ks == <<IndexSeed(f_pseed.value, 0, q), RngKey(sv)>>
                i0 == IndexFromSeed(raw, NextPowerOfTwo(n)) % n
                pq == ProveQuery(f_st, i0)
            IN /\ Answers(ks, <<sv, raw>>)
               /\ ro' = Extend(ro, ks, <<sv, raw>>)
               /\ f_proof' = [f_proof EXCEPT
                     !.queries = Append(@, [per_layer_refs |-> pq.per_layer_refs,
                                            per_layer_payloads |-> pq.per_layer_payloads,
                                            final_index |-> pq.final_index,
                                            final_pair |-> pq.final_pair]),
                     !.layer_proofs = [ell \in 1..Len(@) |-> Append(@[ell], pq.openings[ell])]]
               /\ f_pc' = IF q + 1 = f_params.r THEN "proved" ELSE "seeded"
    /\ UNCHANGED <<f_in, f_params, f_f0, f_pz, f_plog, f_pseed, f_st, f_vz, f_vlog, f_res,
                   f_tamper, f_size>>
    /\ UNCHANGED <<mvars, tvars, svars, zvars, xvars>>

\* what a sender of the proof can change in it before deep_fri_verify reads it
\* changes of a value
ValueTampers ==
    {"leaf", "index", "ref_i", "q", "f_i", "s_i", "f_parent_b", "s_and_parent", "f_i_and_f_0",
     "final"}
\* entries made again by the prover at an index of its choice
IndexTampers == {"requery", "rechain"}
\* entries removed or added
MalformedKinds ==
    {"drop_query", "drop_payload", "drop_ref", "drop_root", "drop_opening", "long_path"}
TamperKinds == ValueTampers \cup IndexTampers \cup MalformedKinds

\* the first query made again by fri_prove_queries and deep_fri_prove from the
\* initial index i0
Requery(proof, st, i0) ==
    LET pq == ProveQuery(st, i0)
    IN [proof EXCEPT
          !.queries[1] = [per_layer_refs |-> pq.per_layer_refs,
                          per_layer_payloads |-> pq.per_layer_payloads,
                          final_index |-> pq.final_index,
                          final_pair |-> pq.final_pair],
          !.layer_proofs = [l \in 1..Len(@) |-> [@[l] EXCEPT ![1] = pq.openings[l]]]]

\* the first query's reference, payload and opening of layer ell made again at
\* index i, the other layers left as they are
Rechain(proof, st, ell, i) ==
    LET n == Len(st.f_layers[ell])
        m == st.schedule[ell]
        rref == [i |-> i, child_pos |-> i % m, parent_index |-> i % (n \div m), parent_pos |-> 0]
    IN [proof EXCEPT
          !.queries[1].per_layer_refs[ell] = rref,
          !.queries[1].per_layer_payloads[ell] = LayerPayload(st, ell, rref),
          !.layer_proofs[ell][1] = Open(LayerCfg(n, m, ell - 1), st.trees[ell], i)]

\* the proof is changed between prover and verifier, in the first query's
\* entry at layer ell (1-based): one field is changed ("s_and_parent" sets s_i
\* and f_parent_b to one new value, "f_i_and_f_0" adds one to both, "final"
\* changes final_pair.0), the entry is made again at the next index, or a part
\* of the proof is removed or extended
FTamper(kind, ell) ==
    /\ f_pc = "proved"
    /\ f_tamper = NoFTamper
    /\ Len(f_proof.queries) >= 1 /\ Len(f_proof.queries) <= MaxTamperQueries
    /\ ell \in {1, Len(f_params.schedule)}
    /\ kind \in {"final", "requery", "drop_query"} => ell = 1
    /\ f_proof' =
         CASE kind = "leaf" -> [f_proof EXCEPT !.layer_proofs[ell][1].leaf = Append(@, 0)]
           [] kind = "index" -> [f_proof EXCEPT !.layer_proofs[ell][1].index = FlipLowBit(@)]
           [] kind = "ref_i" ->
                [f_proof EXCEPT !.queries[1].per_layer_refs[ell].i = FlipLowBit(@)]
           [] kind = "q" ->
                [f_proof EXCEPT !.queries[1].per_layer_payloads[ell].q[2] = FAdd(@, 1)]
           [] kind = "f_i" ->
                [f_proof EXCEPT !.queries[1].per_layer_payloads[ell].f_i = FAdd(@, 1)]
           [] kind = "s_i" ->
                [f_proof EXCEPT !.queries[1].per_layer_payloads[ell].s_i = FAdd(@, 1)]
           [] kind = "f_parent_b" ->
                [f_proof EXCEPT !.queries[1].per_layer_payloads[ell].f_parent_b = FAdd(@, 1)]
           [] kind = "s_and_parent" ->
                [f_proof EXCEPT
                    !.queries[1].per_layer_payloads[ell].f_parent_b = FAdd(@, 1),
                    !.queries[1].per_layer_payloads[ell].s_i =
                        FAdd(f_proof.queries[1].per_layer_payloads[ell].f_parent_b, 1)]
           [] kind = "final" -> [f_proof EXCEPT !.queries[1].final_pair[1] = FAdd(@, 1)]
           [] kind = "f_i_and_f_0" ->
                [f_proof EXCEPT
                    !.queries[1].per_layer_payloads[ell].f_i = FAdd(@, 1),
                    !.queries[1].per_layer_payloads[ell].f_0 = FAdd(@, 1)]
           [] kind = "requery" ->
                Requery(f_proof, f_st,
                        (f_proof.queries[1].per_layer_refs[1].i + 1) % Len(f_st.f_layers[1]))
           [] kind = "rechain" ->
                Rechain(f_proof, f_st, ell,
                        (f_proof.queries[1].per_layer_refs[ell].i + 1) % Len(f_st.f_layers[ell]))
           [] kind = "drop_query" -> [f_proof EXCEPT !.queries = <<>>]
           [] kind = "drop_payload" ->
                [f_proof EXCEPT !.queries[1].per_layer_payloads = SubSeq(@, 1, ell - 1)]
           [] kind = "drop_ref" ->
                [f_proof EXCEPT !.queries[1].per_layer_refs = SubSeq(@, 1, ell - 1)]
           [] kind = "drop_root" -> [f_proof EXCEPT !.roots = SubSeq(@, 1, ell - 1)]
           [] kind = "drop_opening" -> [f_proof EXCEPT !.layer_proofs[ell] = <<>>]
           [] kind = "long_path" ->
                [f_proof EXCEPT !.layer_proofs[ell][1].path = Append(@, @[1])]
    /\ f_tamper' = [kind |-> kind, ell |-> ell]
    /\ UNCHANGED <<ro, f_pc, f_in, f_params, f_f0, f_pz, f_plog, f_pseed, f_st, f_vz, f_vlog,
                   f_res, f_size>>
    /\ UNCHANGED <<mvars, tvars, svars, zvars, xvars>>

\* deep_fri_verify(params, proof)
FVerify(zs, sv) ==
    /\ f_pc = "proved"
    /\ LET d == VerifierZ(f_params.schedule, f_proof.n0, f_params.seed_z)
           seed_key == ChallengeKey(d.sp, FRI_SEED)
           sizes == LayerSizesFromSchedule(f_proof.n0, f_params.schedule)
           res == DeepFriVerify(f_params, f_proof, zs)
       IN IF sizes.ok
          THEN /\ Answers(Append(d.keys, seed_key), Append(zs, sv))
               /\ ro' = Extend(ro, Append(d.keys, seed_key), Append(zs, sv))
               /\ f_vz' = zs
               /\ f_vlog' = BindStatementCalls(f_params.schedule, f_proof.n0, f_params.seed_z)
                               \o d.calls \o <<Call("challenge", FRI_SEED)>>
               /\ f_res' = IF res = "panic" THEN "none" ELSE res
               /\ f_pc' = IF res = "panic" THEN "verify_panic" ELSE "verified"
          ELSE /\ f_pc' = "verify_panic"
               /\ UNCHANGED <<ro, f_vz, f_vlog, f_res>>
    /\ UNCHANGED <<f_in, f_params, f_f0, f_pz, f_plog, f_pseed, f_st, f_proof, f_tamper, f_size>>
    /\ UNCHANGED <<mvars, tvars, svars, zvars, xvars>>

\* the benchmark's deep_fri_proof_size_bytes(&proof), after its verify
FProofSize ==
    /\ f_pc = "verified" /\ f_tamper = NoFTamper /\ f_size = -1
    /\ f_size' = DeepFriProofSizeBytes(f_proof)
    /\ UNCHANGED <<ro, f_pc, f_in, f_params, f_f0, f_pz, f_plog, f_pseed, f_st, f_proof, f_vz,
                   f_vlog, f_res, f_tamper>>
    /\ UNCHANGED <<mvars, tvars, svars, zvars, xvars>>

FNext ==
    \/ FMerge
    \/ \E schedule \in FSchedules(f_in.n0), r \in 0..MaxQueries, seed_z \in FSeedZs,
          zs \in ZPool, sv \in SeedPool :
            FBuildTranscript(schedule, r, seed_z, zs, sv)
    \/ \E v \in SeedPool : FSeedFromRoots(v)
    \/ \E sv \in SeedPool, raw \in RawPool : FQuery(sv, raw)
    \/ \E kind \in TamperKinds, ell \in 1..5 : FTamper(kind, ell)
    \/ \E zs \in ZPool, sv \in SeedPool : FVerify(zs, sv)
    \/ FProofSize

SpecFri == FInit /\ [][FNext]_vars
-----------------------------------------------------------------------------
(* fri_sample_z_ell: one call, one step per turn of its loop *)

\* the loop's bound
MAX_TRIES == 1000

\* seed_z is a u64; the model's word is as much wider than the model's field
\* as is needed for seed_z + level + 7 to wrap and for F::from to reduce
WordMod == 256
WrappingAdd(a, b) == (a + b) % WordMod
FFromWord(w) == w % P

\* arguments: 186 + 0 + 7 is the modulus, 185 + 0 + 7 is -1, 250 + 1 + 7 wraps
SampleSeeds == {0, 185, 186, 250}
SampleLevels == {0, 1}
SampleSizes == {0, 2, 4}
\* values of F::from(rng.gen::<u64>()): zero, two points of H, two others
CandPool == {0, 1, P - 1, 2, 11}

ZInit ==
    /\ z_in \in [seed_z : SampleSeeds, level : SampleLevels, domain_size : SampleSizes]
    /\ z_tries = 0
    /\ z_st = "loop"
    /\ z_ret = NoReturn
    /\ OracleIdle /\ MIdle /\ TIdle /\ SIdle /\ FIdle /\ XIdle

\* the fallback of the exhausted loop
SampleFallback(seed_z, level) == FFromWord(WrappingAdd(WrappingAdd(seed_z, level), 7))

\* !cand.is_zero() && cand.pow(n) != 1
CandUsable(cand, n) == cand # 0 /\ FPow(cand, n) # 1

\* one turn of the loop on the candidate the generator gives. The generator
\* is seeded from tr_hash_fields_tagged(FRI_Z_L, [seed_z, level, domain_size]);
\* which u64 it gives at each draw is not computed here, every value of
\* CandPool is tried at every draw.
ZTry(cand) ==
    /\ z_st = "loop"
    /\ LET n == z_in.domain_size
           fallback == SampleFallback(z_in.seed_z, z_in.level)
       IN IF CandUsable(cand, n)
          THEN /\ z_ret' = [value |-> cand, by |-> "candidate"]
               /\ z_st' = "returned"
               /\ UNCHANGED z_tries
          ELSE /\ z_tries' = z_tries + 1
               /\ IF z_tries + 1 >= MAX_TRIES
                  THEN /\ z_st' = "returned"
                       /\ z_ret' = IF FPow(fallback, n) # 1
                                   THEN [value |-> fallback, by |-> "fallback"]
                                   ELSE [value |-> FFromWord(11), by |-> "eleven"]
                  ELSE UNCHANGED <<z_st, z_ret>>
    /\ UNCHANGED z_in
    /\ UNCHANGED <<mvars, ro, tvars, svars, fvars, xvars>>

ZNext == \E cand \in CandPool : ZTry(cand)

SpecSample == ZInit /\ [][ZNext]_vars
-----------------------------------------------------------------------------
(* fri_fold_layer: one call, one step per bucket, in the sequential loop or as
   the tasks of the parallel iterator in any order *)

\* PARALLEL_MIN_ELEMS is 1 << 12 in the source; the threshold is scaled to the
\* vectors of the model
PARALLEL_MIN_ELEMS == 4

\* enable_parallel(len) in a build with or without the feature "parallel",
\* with rayon::current_num_threads() = threads
EnableParallel(len, feature, threads) ==
    feature /\ len >= PARALLEL_MIN_ELEMS /\ threads > 1

FoldLengths == {6, 8, 16}
FoldEvals == { [i \in 1..n |-> (c * i + 1) % P] : n \in FoldLengths, c \in {3, 7} }
FoldFactors == {2, 4}
FoldZs == {2, 5}
FoldThreads == {1, 2}

PInit ==
    /\ p_in \in [evals : FoldEvals, z_l : FoldZs, folding_factor : FoldFactors,
                 feature : BOOLEAN, threads : FoldThreads]
    /\ p_out = <<>> /\ p_todo = {} /\ p_b = 0
    /\ p_st = "called"
    /\ OracleIdle /\ MIdle /\ TIdle /\ SIdle /\ FIdle /\ ZIdle /\ HIdle /\ WIdle

\* mutant: the bucket is a contiguous run of folding_factor values
FoldBucketContiguous(evals, z_l, folding_factor, b) ==
    SumF([j \in 1..folding_factor |->
            FMul(evals[b * folding_factor + j], FPow(z_l, j - 1))])

\* acc of bucket b (from 0): the sum over j of evals[b + j * n_next] * z_pows[j]
FoldBucket(evals, z_l, folding_factor, b) ==
    LET n_next == Len(evals) \div folding_factor
    IN SumF([j \in 1..folding_factor |->
               FMul(evals[b + (j - 1) * n_next + 1], FPow(z_l, j - 1))])

\* the assertion, vec![F::zero(); n_next], and the choice of the branch
PStart ==
    /\ p_st = "called"
    /\ LET n == Len(p_in.evals)
           n_next == n \div p_in.folding_factor
       IN IF n % p_in.folding_factor # 0
          THEN p_st' = "panic" /\ UNCHANGED <<p_out, p_todo>>
          ELSE /\ p_out' = [b \in 1..n_next |-> 0]
               /\ IF EnableParallel(n_next, p_in.feature, p_in.threads)
                  THEN p_st' = "par" /\ p_todo' = 0..(n_next - 1)
                  ELSE p_st' = "seq" /\ UNCHANGED p_todo
    /\ UNCHANGED <<p_in, p_b>>
    /\ UNCHANGED <<mvars, ro, tvars, svars, fvars, zvars, hvars, wvars>>

\* out.par_iter_mut().enumerate().for_each: the task of bucket b, which holds
\* the only reference to out[b]
PTask(b) ==
    /\ p_st = "par" /\ b \in p_todo
    /\ p_out' = [p_out EXCEPT ![b + 1] =
                    FoldBucket(p_in.evals, p_in.z_l, p_in.folding_factor, b)]
    /\ p_todo' = p_todo \ {b}
    /\ UNCHANGED <<p_in, p_b, p_st>>
    /\ UNCHANGED <<mvars, ro, tvars, svars, fvars, zvars, hvars, wvars>>

\* for_each returns when every task has run; return out
PJoin ==
    /\ p_st = "par" /\ p_todo = {}
    /\ p_st' = "returned"
    /\ UNCHANGED <<p_in, p_out, p_todo, p_b>>
    /\ UNCHANGED <<mvars, ro, tvars, svars, fvars, zvars, hvars, wvars>>

\* for b in 0..n_next: one turn, or the return after the last one
PSeqStep ==
    /\ p_st = "seq"
    /\ IF p_b < Len(p_out)
       THEN /\ p_out' = [p_out EXCEPT ![p_b + 1] =
                            FoldBucket(p_in.evals, p_in.z_l, p_in.folding_factor, p_b)]
            /\ p_b' = p_b + 1
            /\ UNCHANGED p_st
       ELSE p_st' = "returned" /\ UNCHANGED <<p_out, p_b>>
    /\ UNCHANGED <<p_in, p_todo>>
    /\ UNCHANGED <<mvars, ro, tvars, svars, fvars, zvars, hvars, wvars>>

PNext ==
    \/ PStart
    \/ \E b \in 0..15 : PTask(b)
    \/ PJoin
    \/ PSeqStep

SpecFold == PInit /\ [][PNext]_vars
-----------------------------------------------------------------------------
(* The transcript on the SHA3-256 and BLAKE3 backends, driven call by call.
   An incremental hasher is a function of the bytes it was updated with, in
   order; h_bytes is their concatenation. *)

HashKinds == {"sha3-256", "blake3"}
HInitLabels == { FRI_FS, OUT }
HBytes == { <<97>>, <<97, 0>> }
HFields == { ZeroWord, FieldCell(5) }
HLabels == { OUT, Z_FP3_A0 }
\* values of bytes_to_field_u64 on the first 8 bytes of a digest
HValues == {1, 2}

\* Sha3Backend::new / Blake3Backend::new: the bytes of the new hasher
HasherNew(init_label) == TRANSCRIPT_INIT \o init_label

\* absorb_bytes: update(ABSORB_BYTES); update(bytes)
HasherAbsorbBytes(bytes_in, bytes) == bytes_in \o ABSORB_BYTES \o bytes

\* absorb_field: x.into_bigint().to_bytes_le(), of which at most 8 bytes are absorbed
HasherAbsorbField(bytes_in, x) == HasherAbsorbBytes(bytes_in, SubSeq(x, 1, 8))

\* challenge: the bytes of h2 = self.h.clone() when it is finalized
HasherChallengeInput(bytes_in, label) == bytes_in \o CHALLENGE \o label

\* finalize() of a hasher of the given kind: the key of the value in ro, one
\* no sponge produces
DigestKey(kind, bytes_in) == <<IF kind = "sha3-256" THEN -2 ELSE -3>> \o bytes_in

\* mutant: challenge updates self.h itself
HasherAfterChallengeNoClone(bytes_in, label) == HasherChallengeInput(bytes_in, label)

\* challenge: the bytes of self.h after the call
HasherAfterChallenge(bytes_in, label) == bytes_in

HInit ==
    /\ ro = EmptyFn
    /\ h_kind \in HashKinds
    /\ h_init \in HInitLabels
    /\ h_bytes = HasherNew(h_init)
    /\ h_calls = <<>>
    /\ h_out = <<>>
    /\ MIdle /\ TIdle /\ SIdle /\ FIdle /\ ZIdle /\ PIdle /\ WIdle

HCanCall == Len(h_calls) < MaxHashCalls

HAbsorbBytes(bytes) ==
    /\ HCanCall
    /\ h_bytes' = HasherAbsorbBytes(h_bytes, bytes)
    /\ h_calls' = Append(h_calls, Call("absorb_bytes", bytes))
    /\ UNCHANGED <<ro, h_kind, h_init, h_out>>
    /\ UNCHANGED <<mvars, tvars, svars, fvars, zvars, pvars, wvars>>

HAbsorbField(x) ==
    /\ HCanCall
    /\ h_bytes' = HasherAbsorbField(h_bytes, x)
    /\ h_calls' = Append(h_calls, Call("absorb_field", x))
    /\ UNCHANGED <<ro, h_kind, h_init, h_out>>
    /\ UNCHANGED <<mvars, tvars, svars, fvars, zvars, pvars, wvars>>

\* challenge(label), returning v
HChallenge(label, v) ==
    /\ HCanCall
    /\ LET k == DigestKey(h_kind, HasherChallengeInput(h_bytes, label))
       IN /\ Sampled(k, v)
          /\ ro' = Extend(ro, <<k>>, <<v>>)
    /\ h_bytes' = HasherAfterChallenge(h_bytes, label)
    /\ h_calls' = Append(h_calls, Call("challenge", label))
    /\ h_out' = Append(h_out, v)
    /\ UNCHANGED <<h_kind, h_init>>
    /\ UNCHANGED <<mvars, tvars, svars, fvars, zvars, pvars, wvars>>

HNext ==
    \/ \E bytes \in HBytes : HAbsorbBytes(bytes)
    \/ \E x \in HFields : HAbsorbField(x)
    \/ \E label \in HLabels, v \in HValues : HChallenge(label, v)

SpecHasher == HInit /\ [][HNext]_vars
-----------------------------------------------------------------------------
(* Fp3: the product of two embedded base-field elements *)

TowerPool == (0..9) \cup {P - 2, P - 1}

WInit ==
    /\ w_a \in TowerPool /\ w_b \in TowerPool
    /\ w_prod = <<>>
    /\ OracleIdle /\ MIdle /\ TIdle /\ SIdle /\ FIdle /\ ZIdle /\ PIdle /\ HIdle

\* Fp3::from_base(a).mul(Fp3::from_base(b))
WMul ==
    /\ w_prod = <<>>
    /\ w_prod' = Fp3Mul(Fp3FromBase(w_a), Fp3FromBase(w_b))
    /\ UNCHANGED <<w_a, w_b>>
    /\ UNCHANGED <<mvars, ro, tvars, svars, fvars, zvars, pvars, hvars>>

WNext == WMul

SpecTower == WInit /\ [][WNext]_vars
-----------------------------------------------------------------------------
(* Properties of the Merkle commitment *)

MLeaves == IF m_levels = <<>> THEN 0 ELSE Len(m_levels[1])
MVerified == m_res \in {"true", "false", "panic"}
\* built by pushes followed by one finalize, arities covering the leaves
MWellBuilt == m_nfin = 1 /\ MLeaves >= 1 /\ Prod(m_cfg.layer_arities) >= MLeaves
MPadded == \E l \in 1..Len(m_levels) - 1 :
              Len(m_levels[l]) % m_cfg.layer_arities[l] # 0

\* C4: Merkle opening completeness.  For a tree built by L pushes and one
\* finalize, with arities whose product covers L, finalize does not abort and
\* the unaltered opening of every index i < L verifies against the root
\* under the tree's trace hash, padded levels included.
C4_OpeningCompleteness ==
    MWellBuilt =>
        /\ m_res # "panic_finalize"
        /\ (MVerified /\ m_tamper.kind = "none" /\ m_vtrace = m_trace) => m_res = "true"

C4_Witness ==
    /\ MWellBuilt /\ MPadded /\ Len(m_levels) >= 3
    /\ m_tamper.kind = "none" /\ m_vtrace = m_trace
    /\ m_open.index = MLeaves - 1
    /\ m_res = "true"

\* C5 (as claimed): after the leaf, one sibling value or the index of an
\* opening is changed, verify_opening returns false.
C5_OpeningBinding ==
    (MWellBuilt /\ MVerified /\ m_tamper.kind \in {"leaf", "sibling", "index"})
        => m_res = "false"

\* C6 (as claimed): exchanging any two entries of one level's sibling group
\* makes verify_opening return false (arity schedule [4,4,4,4,4]).
C6_SwapRejected ==
    (MWellBuilt /\ MVerified /\ m_tamper.kind = "swap"
        /\ m_cfg.layer_arities = <<4, 4, 4, 4, 4>>)
        => m_res = "false"

\* C6 (amended): exchanging two entries of one level's sibling group makes
\* verify_opening return false exactly when the two entries hold different
\* values; exchanging two equal entries (copies of a padded last node)
\* leaves the opening as it was and it still verifies.
C6_SwapRejectedIffDistinct ==
    (MWellBuilt /\ MVerified /\ m_tamper.kind = "swap"
        /\ m_cfg.layer_arities = <<4, 4, 4, 4, 4>>)
        => LET l == m_tamper.level
               distinct == m_open.path[l][m_tamper.a] # m_open.path[l][m_tamper.b]
           IN /\ distinct => m_res = "false"
              /\ ~distinct => m_res = "true"

C6_Witness ==
    /\ MWellBuilt /\ MPadded /\ m_tamper.kind = "swap"
    /\ m_cfg.layer_arities = <<4, 4, 4, 4, 4>>
    /\ m_open.path[m_tamper.level][m_tamper.a] # m_open.path[m_tamper.level][m_tamper.b]
    /\ m_res = "false"

\* C7 (as claimed): an opening whose sibling list has the wrong size (a group
\* longer or shorter than arity - 1, or more or fewer groups than the tree
\* has levels) is always rejected with false.
C7_SizeMismatchRejected ==
    (MWellBuilt /\ MVerified /\ m_tamper.kind \in {"long", "short", "fewer", "more"})
        => m_res = "false"

\* C8 (as claimed): an opening made under one trace_hash does not verify when
\* verify_opening is given another trace_hash.
C8_TraceHashBound ==
    (MWellBuilt /\ MVerified /\ m_tamper.kind = "none" /\ m_vtrace # m_trace)
        => m_res = "false"

\* the root of the tree finalized once from the leaves pushed
MFirstRoot == Last(FinalizeLoop(m_cfg, <<m_levels[1]>>, 0).levels)[1]
\* finalized twice, arities covering the leaves
MFinalizedTwice == m_nfin = 2 /\ MLeaves >= 1 /\ Prod(m_cfg.layer_arities) >= MLeaves

\* C29: finalize is idempotent: after any sequence of push_leaf calls a second
\* finalize returns the same root as the first, and open(i) still returns, for
\* every leaf index i, an opening that verify_opening accepts against that root.
C29_FinalizeIdempotent ==
    MFinalizedTwice =>
        /\ m_res # "panic_finalize"
        /\ m_root = MFirstRoot
        /\ \A i \in 0..(MLeaves - 1) : ~OpenPanics(m_cfg, m_levels, i)
        /\ (MVerified /\ m_tamper.kind = "none") => m_res = "true"
-----------------------------------------------------------------------------
(* Properties of the transcript *)

\* C9: transcript determinism.  Two transcripts with the same init label that
\* received the same calls returned the same value at every challenge call
\* and are in the same state; and when the prover's transcript and the
\* verifier's transcript were built for the same (n0, schedule, seed_z), the
\* z_fp3 derived by deep_fri_verify equals the one derived by
\* fri_build_transcript.
C9_TranscriptDeterminism ==
    /\ (t_init["A"] = t_init["B"] /\ t_calls["A"] = t_calls["B"])
            => (t_out["A"] = t_out["B"] /\ t_sp["A"] = t_sp["B"])
    /\ (t_stmt["A"] # NoStmt /\ t_stmt["A"] = t_stmt["B"]) => t_z["A"] = t_z["B"]

C9_Witness ==
    /\ t_stmt["A"] # NoStmt /\ t_stmt["A"] = t_stmt["B"]
    /\ Len(t_stmt["A"].schedule) = 5
    /\ t_z["A"] = t_z["B"] /\ t_z["A"][1] # t_z["A"][2]

-----------------------------------------------------------------------------
(* Properties of the layer sizes *)

S3Schedule == <<32, 32, 32, 16>>
S3Sizes == <<65536, 2048, 64, 2>>

\* C3 (as claimed): with n0 = 2^16 and schedule [32,32,32,16] every layer size
\* is divisible by its folding factor, so no divisibility assertion fires.
C3_S3NoAssertion ==
    (s_n0 = 65536 /\ s_sched = S3Schedule) => s_st # "panic"

\* C3 (amended): with n0 = 2^16 and schedule [32,32,32,16] the layer sizes
\* are 65536, 2048, 64, 2 and the last factor 16 does not divide 2: the
\* divisibility assertion fires at the fourth layer in the prover's fold and
\* in the verifier's layer_sizes_from_schedule, and neither runs to completion.
C3_S3AssertionFires ==
    (s_n0 = 65536 /\ s_sched = S3Schedule) =>
        /\ s_st # "done"
        /\ \E k \in 1..4 : s_sizes = SubSeq(S3Sizes, 1, k)
        /\ s_st = "panic" => s_sizes = S3Sizes

C3_Witness ==
    /\ s_n0 = 65536 /\ s_sched = S3Schedule /\ s_who = "prover"
    /\ s_st = "panic" /\ s_sizes = S3Sizes

-----------------------------------------------------------------------------
(* Properties of the proving and verifying run *)

\* the schedule is normalized: its factors multiply to n0
\* the proof reaches the verifier as the prover made it
FHonest == f_tamper = NoFTamper
FNormalized == f_params # NoParams /\ Prod(f_params.schedule) = f_in.n0
FEnded == f_pc \in {"prove_panic", "verify_panic", "verified"}
\* a coordinate of the prover's z_fp3 is a point of the initial domain
FZCollides == \E i \in 1..3 : FPow(f_pz[i], f_in.n0) = 1

UnflippedF0 ==
    MergeEvals(AEval(f_in.n0, f_in.c, FALSE), SEval(f_in.n0), EEval(f_in.n0, f_in.c),
               TEval(f_in.n0), GroupGen(f_in.n0), f_in.z)

\* every coefficient of index >= n/32 of the interpolant of f is zero
LowDegree(f) ==
    LET n == Len(f)
        c == IfftTruncated(f, GroupGen(n), n)
    IN \A k \in 1..n : k > n \div 32 => c[k] = 0

\* C2 (as claimed): when the low bit of a[0] is flipped before the merge and
\* merge, prove and verify are run with a normalized schedule,
\* deep_fri_verify returns false.
C2_FlippedInputRejected ==
    (f_in.flip /\ FNormalized /\ FHonest /\ f_pc = "verified") => f_res = "false"

\* C2 (amended): when the low bit of a[0] is flipped before the merge, the
\* merge still returns a codeword of degree < n0/32 (its rate enforcement
\* truncates the interpolant), and with a normalized schedule
\* deep_fri_verify returns true on the proof made from it.
C2_FlippedInputAccepted ==
    /\ (f_in.flip /\ f_pc = "merged") => LowDegree(f_f0)
    /\ (f_in.flip /\ FNormalized /\ FHonest /\ f_pc = "verified") => f_res = "true"

C2_Witness ==
    /\ f_in.flip /\ FNormalized /\ FHonest /\ f_pc = "verified" /\ f_res = "true"
    /\ f_in.n0 = 64
    /\ f_f0 # UnflippedF0

\* the calls of log include absorb_field(root) before challenge(FRI_SEED)
AbsorbedBeforeSeed(log, root) ==
    \E i, j \in 1..Len(log) :
        /\ i < j
        /\ log[i] = Call("absorb_field", root)
        /\ log[j] = Call("challenge", FRI_SEED)

\* C10 (as claimed): the prover absorbs every layer's root into the
\* statement-bound transcript before the query seed is drawn from that
\* transcript, the seed that selects the query indices is that transcript's
\* challenge, and the verifier absorbs the same roots before deriving its
\* seed.
C10_RootsAbsorbedBeforeSeed ==
    /\ f_pc \in {"proved", "verified"} =>
        /\ \A ell \in 1..Len(f_proof.roots) : AbsorbedBeforeSeed(f_plog, f_proof.roots[ell])
        /\ f_pseed.key =
              ChallengeKey(ProverZ(f_params.schedule, f_in.n0, f_params.seed_z).sp, FRI_SEED)
    /\ f_pc = "verified" =>
        \A ell \in 1..Len(f_proof.roots) : AbsorbedBeforeSeed(f_vlog, f_proof.roots[ell])

-----------------------------------------------------------------------------
(* Properties of the prover's schedule and state *)

FBuilt == f_pc \in {"built", "seeded", "proved", "verified"}

\* C11 (as claimed): the prover works on the normalized schedule: when the
\* factors of the schedule handed to deep_fri_prove divide n0 in turn, the
\* schedule of the prover's state is the one normalize_fri_schedule returns
\* (the residual appended as a last factor) and its last layer has size 1.
C11_ProverNormalizes ==
    (FBuilt /\ NormalizeFriSchedule(f_in.n0, f_params.schedule).ok) =>
        /\ f_st.schedule = NormalizeFriSchedule(f_in.n0, f_params.schedule).schedule
        /\ Len(Last(f_st.f_layers)) = 1

-----------------------------------------------------------------------------
(* Properties of the verifier *)

\* the checks (a)-(d) of query q at layer ell, and the final pair of query q,
\* written out for the proof the verifier read
CheckMerkle(q, ell) ==
    VerifyOpening(LayerCfg(LayerSizesFromSchedule(f_proof.n0, f_params.schedule).sizes[ell],
                           f_params.schedule[ell], ell - 1),
                  f_proof.roots[ell], f_proof.layer_proofs[ell][q], <<>>) = "true"
CheckIndex(q, ell) ==
    f_proof.layer_proofs[ell][q].index = f_proof.queries[q].per_layer_refs[ell].i
CheckDeep(q, ell) ==
    LET pay == f_proof.queries[q].per_layer_payloads[ell]
    IN \A k \in 1..3 :
          (pay.q[k] * ((pay.x_i - f_vz[k] + P) % P)) % P = (pay.f_i - pay.f_0 + P) % P
CheckFold(q, ell) ==
    f_proof.queries[q].per_layer_payloads[ell].s_i
        = f_proof.queries[q].per_layer_payloads[ell].f_parent_b
CheckFinal(q) == f_proof.queries[q].final_pair[1] = f_proof.queries[q].final_pair[2]

AllChecksHold ==
    \A q \in 1..f_params.r :
        /\ \A ell \in 1..Len(f_params.schedule) :
              CheckMerkle(q, ell) /\ CheckIndex(q, ell) /\ CheckDeep(q, ell) /\ CheckFold(q, ell)
        /\ CheckFinal(q)

\* C12: deep_fri_verify returns true exactly when, for every query and every
\* layer, the opening verifies against the layer's root, its index is the
\* payload's index, the DEEP equation holds in every coordinate and
\* s_i = f_parent_b, and every query's final pair is constant; any failing
\* check makes it return false.
C12_VerifyIffAllChecks ==
    f_pc = "verified" =>
        /\ f_res \in {"true", "false"}
        /\ f_res = "true" <=> AllChecksHold

\* a check of the first layer fails and every later check of the proof passes
C12_Witness ==
    /\ f_pc = "verified" /\ f_res = "false"
    /\ f_tamper = [kind |-> "q", ell |-> 1] /\ Len(f_params.schedule) = 3
    /\ ~CheckDeep(1, 1) /\ CheckMerkle(1, 1) /\ CheckIndex(1, 1) /\ CheckFold(1, 1)
    /\ \A ell \in 2..3 : CheckDeep(1, ell) /\ CheckFold(1, ell)
    /\ CheckFinal(1)

\* the codeword value committed for the parent of query q at layer ell: the
\* f_i opened for q at layer ell + 1, or final_pair.0 after the last layer
CommittedParent(q, ell) ==
    IF ell < Len(f_params.schedule)
    THEN f_proof.queries[q].per_layer_payloads[ell + 1].f_i
    ELSE f_proof.queries[q].final_pair[1]

\* C13 (as claimed): deep_fri_verify accepts only proofs in which the
\* f_parent_b of every query and layer is the value committed for the next
\* layer at the parent index.
C13_ParentBound ==
    (f_pc = "verified" /\ f_res = "true") =>
        \A q \in 1..f_params.r : \A ell \in 1..Len(f_params.schedule) :
            f_proof.queries[q].per_layer_payloads[ell].f_parent_b = CommittedParent(q, ell)

-----------------------------------------------------------------------------
(* Properties of the proof size *)

\* bytes of the r openings of layer ell (1-based) when each opening is counted
\* as `fixed` bytes plus 8 * (arity - 1) bytes per level
OpeningBytes(ell, fixed) ==
    LET cfg == LayerCfg(Len(f_st.f_layers[ell]), f_params.schedule[ell], ell - 1)
    IN f_params.r * (fixed + 8 * Len(cfg.layer_arities) * (cfg.layer_arities[1] - 1))

SizeFormula(fixed) ==
    LET L == Len(f_params.schedule)
    IN 8 * L + f_params.r * (9 * L + 2) * 8
         + SumSeq([ell \in 1..L |-> OpeningBytes(ell, fixed)])

\* C14 (as claimed): deep_fri_proof_size_bytes returns 8L + r(9L+2)8 plus, for
\* each of the r*L openings, 8 bytes for the index and 8(arity-1) bytes per
\* level, and nothing else.
C14_SizeWithoutLeaf == f_size # -1 => f_size = SizeFormula(8)

\* C14 (amended): deep_fri_proof_size_bytes returns 8L + r(9L+2)8 plus, for
\* each of the r*L openings, 8 bytes for the opened leaf, 8 bytes for the
\* index and 8(arity-1) bytes per level.
C14_SizeWithLeaf == f_size # -1 => f_size = SizeFormula(16)

C14_Witness ==
    /\ f_size # -1 /\ f_params.r = 2 /\ f_params.schedule = <<8, 4>>
    /\ f_size = 16 + 2 * 20 * 8 + 2 * (16 + 8 * 2 * 7) + 2 * (16 + 8 * 1 * 3)

-----------------------------------------------------------------------------
(* Properties of the handling of parameters *)

\* the configuration is one the specification calls invalid: an empty
\* schedule, a factor that is not a power of two, factors that do not divide
\* n0 in turn, or r = 0
ConfigInvalid ==
    /\ f_params # NoParams
    /\ \/ f_params.schedule = <<>>
       \/ \E k \in 1..Len(f_params.schedule) : ~IsPowerOfTwo(f_params.schedule[k])
       \/ ~LayerSizesFromSchedule(f_in.n0, f_params.schedule).ok
       \/ f_params.r = 0

\* C15 (as claimed): on an invalid configuration deep_fri_prove and
\* deep_fri_verify do not abort, no proof is produced and no verdict is true.
C15_ConfigErrorReported ==
    ConfigInvalid =>
        /\ f_pc \notin {"prove_panic", "verify_panic"}
        /\ f_pc \notin {"proved", "verified"}
        /\ f_res # "true"

-----------------------------------------------------------------------------
(* Properties of the merge *)

\* a coordinate of the merge's challenge is a point of H: its n-th power is 1
MergeZInDomain == \E i \in 1..3 : FPow(f_in.z[i], f_in.n0) = 1
FMergeDone == f_pc \notin {"start", "idle"}

C18_MergeLowDegree ==
    (f_pc = "merged" /\ f_in.n0 >= 32 /\ ~MergeZInDomain) =>
        /\ Len(f_f0) = f_in.n0
        /\ LET c == IfftTruncated(f_f0, GroupGen(f_in.n0), f_in.n0)
           IN \A k \in ((f_in.n0 \div 32) + 1)..f_in.n0 : c[k] = 0

C18_Witness ==
    /\ f_pc = "merged" /\ f_in.n0 = 64 /\ ~MergeZInDomain
    /\ Len(f_f0) = 64
    /\ IfftTruncated(f_f0, GroupGen(64), 64)[2] # 0

-----------------------------------------------------------------------------
(* Properties of the prover's layers and payloads *)

\* C19: in the prover's state, for every layer l < L and every index
\* i < n_l, s_l[i] = f_{l+1}[i mod n_{l+1}] (indices from 0), so s_l is
\* constant on each fold bucket {b + j * n_{l+1}}.
C19_FoldConsistency ==
    FBuilt =>
        \A l \in 1..Len(f_st.schedule) :
            LET n_l == Len(f_st.f_layers[l])
                n_next == Len(f_st.f_layers[l + 1])
            IN /\ Len(f_st.s_layers[l]) = n_l
               /\ n_next * f_st.schedule[l] = n_l
               /\ \A i \in 0..(n_l - 1) :
                      f_st.s_layers[l][i + 1] = f_st.f_layers[l + 1][(i % n_next) + 1]
               /\ \A b \in 0..(n_next - 1) : \A j \in 0..(f_st.schedule[l] - 1) :
                      f_st.s_layers[l][b + j * n_next + 1] = f_st.s_layers[l][b + 1]

C19_Witness ==
    /\ FBuilt /\ f_in.n0 = 64 /\ f_st.schedule = <<4, 4, 4>>
    /\ \E i \in 1..15 : f_st.s_layers[1][i] # f_st.s_layers[1][i + 1]
    /\ f_st.s_layers[2][1] # f_st.s_layers[2][2]

FProofMade == f_pc \in {"proved", "verified"} /\ FHonest

\* q * (x - z) = f_i - f_0 in each of the three components
DeepEquation(q, x, z, f_i, f_0) ==
    \A c \in 1..3 : FMul(q[c], FSub(x, z[c])) = FSub(f_i, f_0)

\* C20: in every proof deep_fri_prove returns, for every query and every
\* layer l the payload satisfies q_i * (x_i - z) = f_i - f_0 componentwise,
\* where x_i = w_l^i for the opened index i, f_0 = f_l[0] and z is the
\* prover's transcript-derived challenge.
C20_DeepEquationOnHonestProofs ==
    FProofMade =>
        \A q \in 1..Len(f_proof.queries) : \A l \in 1..Len(f_st.schedule) :
            LET pay == f_proof.queries[q].per_layer_payloads[l]
                i == f_proof.queries[q].per_layer_refs[l].i
                n_l == Len(f_st.f_layers[l])
            IN /\ pay.x_i = FPow(GroupGen(n_l), i)
               /\ pay.f_0 = f_st.f_layers[l][1]
               /\ pay.f_i = f_st.f_layers[l][i + 1]
               /\ DeepEquation(pay.q, pay.x_i, f_pz, pay.f_i, pay.f_0)

C20_Witness ==
    /\ FProofMade /\ f_in.n0 = 64 /\ Len(f_proof.queries) = 2
    /\ \E q \in 1..2 :
          LET pay == f_proof.queries[q].per_layer_payloads[1]
          IN /\ pay.f_i # pay.f_0
             /\ \A c \in 1..3 : pay.q[c] # 0
             /\ pay.q[1] # pay.q[2]

FQueriesMade == f_pc \in {"seeded", "proved", "verified"} /\ FHonest

\* C22: for every query fri_prove_queries builds, 0 <= i_0 < n_0 and at every
\* layer l < L: 0 <= i_l < n_l, parent_index_l = i_l mod n_{l+1} and
\* i_{l+1} = parent_index_l; final_index = i_{L-1} mod n_L < n_L; so every
\* index used on f_layers, s_layers, q_layers and in tree.open is in range.
C22_QueryIndexChain ==
    FQueriesMade =>
        \A q \in 1..Len(f_proof.queries) :
            LET qp == f_proof.queries[q]
                L == Len(f_st.schedule)
                n(l) == Len(f_st.f_layers[l])
            IN /\ Len(qp.per_layer_refs) = L
               /\ \A l \in 1..L :
                     LET rf == qp.per_layer_refs[l]
                     IN /\ 0 <= rf.i /\ rf.i < n(l)
                        /\ rf.i < Len(f_st.s_layers[l]) /\ rf.i < Len(f_st.q_layers[l])
                        /\ rf.parent_index = rf.i % n(l + 1)
                        /\ rf.parent_index < Len(f_st.s_layers[l + 1])
                        /\ l < L => qp.per_layer_refs[l + 1].i = rf.parent_index
                        /\ f_proof.layer_proofs[l][q].index = rf.i
               /\ L >= 1 => /\ qp.final_index = qp.per_layer_refs[L].i % n(L + 1)
                            /\ qp.final_index < n(L + 1)

\* a query whose index is reduced at the second layer and not at the first
C22_Witness ==
    /\ FQueriesMade /\ f_in.n0 = 64 /\ f_st.schedule = <<4, 4, 4>>
    /\ \E q \in 1..Len(f_proof.queries) :
          LET refs == f_proof.queries[q].per_layer_refs
          IN refs[1].i >= 4 /\ refs[2].i = refs[1].i /\ refs[3].i < refs[2].i

-----------------------------------------------------------------------------
(* Properties of what deep_fri_verify accepts *)

FAccepted == f_pc = "verified" /\ f_res = "true"

\* the initial index of query q (from 1) that follows from the query seed
FDerivedIndex(q) ==
    LET n == f_proof.n0
        sv == ro[IndexSeed(f_pseed.value, 0, q - 1)]
        raw == ro[RngKey(sv)]
    IN IndexFromSeed(raw, NextPowerOfTwo(n)) % n

\* C26: deep_fri_verify accepts a query only if its layer-0 index equals the
\* index derived from the Fiat-Shamir query seed for that query and its
\* per-layer indices follow i_{l+1} = i_l mod n_{l+1}: a proof whose query
\* indices were chosen by the prover, with matching openings, is rejected.
C26_QueryPositionsBound ==
    FAccepted =>
        \A q \in 1..f_params.r :
            LET refs == f_proof.queries[q].per_layer_refs
                sizes == LayerSizesFromSchedule(f_proof.n0, f_params.schedule).sizes
            IN /\ refs[1].i = FDerivedIndex(q)
               /\ \A l \in 1..(Len(refs) - 1) : refs[l + 1].i = refs[l].i % sizes[l + 1]

\* C27: deep_fri_verify rejects every proof in which a payload's f_i, s_i or
\* quotient coordinates differ from the values hashed into the Merkle leaf at
\* the opened index of that layer: in an accepted proof the opened leaf is the
\* digest of (f_i, s_i, q_a0, q_a1, q_a2) of the payload.
C27_PayloadBoundToLeaf ==
    FAccepted =>
        \A q \in 1..f_params.r : \A l \in 1..Len(f_params.schedule) :
            LET pay == f_proof.queries[q].per_layer_payloads[l]
                opening == f_proof.layer_proofs[l][q]
                sizes == LayerSizesFromSchedule(f_proof.n0, f_params.schedule).sizes
                cfg == LayerCfg(sizes[l], f_params.schedule[l], l - 1)
            IN opening.leaf =
                  LeafDigest(cfg, opening.index,
                             <<Fv(pay.f_i), Fv(pay.s_i), Fv(pay.q[1]), Fv(pay.q[2]), Fv(pay.q[3])>>)

\* C28: deep_fri_verify returns false, and does not abort, on a proof with
\* fewer than r query payloads, fewer than L per-layer payloads, refs or roots,
\* fewer than r openings in a layer, or an opening with more sibling groups
\* than the layer's arity schedule has levels.
C28_MalformedReturnsFalse ==
    (f_tamper.kind \in MalformedKinds /\ f_pc \in {"verified", "verify_panic"})
        => (f_pc = "verified" /\ f_res = "false")

-----------------------------------------------------------------------------
(* Properties of the Poseidon backend's rate position *)

\* the last call side x received is a challenge
TLastIsChallenge(x) ==
    t_calls[x] # <<>> /\ t_calls[x][Len(t_calls[x])].op = "challenge"

\* the cells of the rate from pos on are as the permutation (or new) left them
TRateTailClear(x) ==
    \A i \in (t_sp[x].pos + 1)..RATE : t_sp[x].cells[i] = ZeroWord

\* C23 (as claimed): after every sequence of absorb_bytes, absorb_field and
\* challenge calls the rate position pos lies in [0, 16), values are added at
\* state[pos] in turn, and pos is 0 after every challenge.
C23_PosBelowRate ==
    \A x \in Sides :
        /\ t_sp[x].pos \in 0..(RATE - 1)
        /\ TRateTailClear(x)
        /\ TLastIsChallenge(x) => t_sp[x].pos = 0

\* C23 (amended): pos lies in [0, 16]: it is 16 after the value that fills the
\* rate, and the permutation runs only when the next value is added; values
\* are added at state[pos] in turn, and pos is 0 after every challenge.
C23_PosAtMostRate ==
    \A x \in Sides :
        /\ t_sp[x].pos \in 0..RATE
        /\ TRateTailClear(x)
        /\ TLastIsChallenge(x) => t_sp[x].pos = 0

\* a transcript whose rate is full and not yet permuted, and one permuted by
\* the value after the rate was full
C23_Witness ==
    /\ t_sp["A"].pos = RATE
    /\ t_sp["B"].pos \in 1..(RATE - 1) /\ t_sp["B"].base # <<>>
    /\ ~TLastIsChallenge("B")

\* the two transcripts were in one state and then received one call each, of
\* the same kind op, with different byte strings
TDivergeAt(op) ==
    LET a == t_calls["A"]
        b == t_calls["B"]
        k == Len(a)
    IN /\ t_init["A"] = t_init["B"]
       /\ t_stmt["A"] = NoStmt /\ t_stmt["B"] = NoStmt
       /\ k >= 1 /\ Len(b) = k
       /\ SubSeq(a, 1, k - 1) = SubSeq(b, 1, k - 1)
       /\ a[k].op = op /\ b[k].op = op
       /\ a[k].arg # b[k].arg

\* C30: byte absorption is injective on the Poseidon backend: from the same
\* transcript state, absorb_bytes applied to two different byte strings never
\* gives the same state, and challenge with two different labels never reads
\* the same permutation output or leaves the same state.
C30_AbsorbBytesInjective ==
    /\ TDivergeAt("absorb_bytes") => t_sp["A"] # t_sp["B"]
    /\ TDivergeAt("challenge") => t_sp["A"] # t_sp["B"]

-----------------------------------------------------------------------------
(* Properties of the SHA3-256 and BLAKE3 backends *)

RECURSIVE AbsorbedOnly(_, _)
\* the bytes a hasher holds after the absorb calls among the first k calls of
\* the log, the challenge calls left out
AbsorbedOnly(init_label, k) ==
    IF k = 0 THEN TRANSCRIPT_INIT \o init_label
    ELSE LET c == h_calls[k]
             before == AbsorbedOnly(init_label, k - 1)
         IN IF c.op = "challenge" THEN before
            ELSE before \o ABSORB_BYTES \o c.arg

\* the positions of the challenge calls in the log, in order
HChallengeAt == { k \in 1..Len(h_calls) : h_calls[k].op = "challenge" }
HOutOf(k) == h_out[Cardinality({ j \in HChallengeAt : j <= k })]

\* C24: on the SHA3-256 and BLAKE3 backends challenge leaves the absorbed
\* state unchanged: the hasher holds what the absorb calls alone put into it,
\* every challenge returns the digest of the bytes absorbed so far followed by
\* the CHALLENGE tag and the label, whatever challenges were made before, and
\* two challenges in a row with the same label return the same value.
C24_ChallengeLeavesStateUnchanged ==
    /\ h_bytes = AbsorbedOnly(h_init, Len(h_calls))
    /\ \A k \in HChallengeAt :
          LET key == DigestKey(h_kind,
                        AbsorbedOnly(h_init, k - 1) \o CHALLENGE \o h_calls[k].arg)
          IN key \in DOMAIN ro /\ HOutOf(k) = ro[key]
    /\ \A k \in HChallengeAt :
          (k + 1 \in HChallengeAt /\ h_calls[k + 1].arg = h_calls[k].arg)
              => HOutOf(k + 1) = HOutOf(k)

\* two challenges with one label around an absorb give values of different
\* digests, and a challenge is repeated right after with the same value
C24_Witness ==
    /\ h_kind = "blake3" /\ Len(h_calls) = 3
    /\ h_calls[1].op = "challenge" /\ h_calls[2].op = "challenge"
    /\ h_calls[1].arg = h_calls[2].arg /\ h_out[1] = h_out[2]
    /\ h_calls[3].op = "challenge" /\ h_calls[3].arg # h_calls[1].arg
    /\ h_out[3] # h_out[1]

-----------------------------------------------------------------------------
(* Properties of Fp3 *)

\* C25: for all base-field elements a and b, the product
\* Fp3::from_base(a) * Fp3::from_base(b) has a0 = a*b and a1 = a2 = 0.
C25_EmbeddingProduct ==
    w_prod # <<>> =>
        /\ w_prod[1] = FMul(w_a, w_b)
        /\ w_prod[2] = 0
        /\ w_prod[3] = 0

-----------------------------------------------------------------------------
(* Properties of fri_fold_layer *)

PNNext == Len(p_in.evals) \div p_in.folding_factor

\* sum over j < m of evals[b + j * (n / m)] * z^j, indices from 0
StridedSum(b) ==
    SumF([j \in 1..p_in.folding_factor |->
            FMul(p_in.evals[b + (j - 1) * PNNext + 1], FPow(p_in.z_l, j - 1))])

\* C21: for an input of length n divisible by m, fri_fold_layer returns the
\* vector of length n/m with out[b] = sum over j < m of evals[b + j*(n/m)] * z^j,
\* in the sequential and in the parallel branch alike; while the parallel
\* branch runs, the buckets whose task has run hold that value and every other
\* entry of out is as it was allocated (task b writes out[b] only), and the
\* call returns only when no task is left.
C21_StridedFoldAnyInterleaving ==
    /\ p_st = "returned" =>
          /\ Len(p_in.evals) % p_in.folding_factor = 0
          /\ p_todo = {}
          /\ Len(p_out) = PNNext
          /\ \A b \in 0..(PNNext - 1) : p_out[b + 1] = StridedSum(b)
          /\ p_out = FoldLayer(p_in.evals, p_in.z_l, p_in.folding_factor)
    /\ p_st = "par" =>
          /\ EnableParallel(PNNext, p_in.feature, p_in.threads)
          /\ Len(p_out) = PNNext
          /\ \A b \in 0..(PNNext - 1) :
                p_out[b + 1] = IF b \in p_todo THEN 0 ELSE StridedSum(b)
    /\ p_st = "seq" => ~EnableParallel(PNNext, p_in.feature, p_in.threads)

\* a parallel call that has returned, whose tasks could run in more than one order
C21_Witness ==
    /\ p_st = "returned" /\ p_in.feature /\ p_in.threads = 2
    /\ Len(p_in.evals) = 16 /\ p_in.folding_factor = 2
    /\ Len(p_out) = 8 /\ p_out[1] # p_out[2] /\ p_out[8] # 0

-----------------------------------------------------------------------------
(* Properties of fri_sample_z_ell *)

ZReturned == z_st = "returned"
ZUsable(v) == v # 0 /\ FPow(v, z_in.domain_size) # 1

\* C17: fri_sample_z_ell tries at most 1,000 candidates, every value it
\* returns is non-zero and outside H, and when the 1,000 candidates and the
\* fallback derived from seed_z are all unusable the call ends in a ConfigError
\* ("config_error") instead of returning a value.
C17_SampleContract ==
    /\ z_tries <= MAX_TRIES
    /\ ZReturned => ZUsable(z_ret.value)
    /\ (z_tries = MAX_TRIES /\ ~ZUsable(SampleFallback(z_in.seed_z, z_in.level)))
           => z_st = "config_error"

====
